---- MODULE Spec2Model ----
(***************************************************************************)
(* FileCrypter streaming container (src-tauri/src/crypto/streaming.rs):    *)
(* encrypt_file_streaming and decrypt_file_streaming over a small file     *)
(* system, with the header codec, the chunk loop and the atomic output.    *)
(*                                                                         *)
(* Cryptography is idealised.  Argon2id and BLAKE3 are free constructors   *)
(* (two derivations agree only on equal inputs).  AES-256-GCM is the ideal *)
(* AEAD: `sealed` records every (key, nonce, aad, ciphertext) the cipher   *)
(* produced, and a ciphertext opens only if it is in `sealed`.  The bytes  *)
(* of a ciphertext and of a tag are rendered as numbers so that a file is  *)
(* a sequence of bytes that can be cut, flipped and re-parsed.             *)
(***************************************************************************)
EXTENDS Integers, Sequences, FiniteSets, TLC

(* ------------------------------ bounds -------------------------------- *)
\* longest plaintext of the input file, in bytes
MaxLen == 3
\* chunk sizes 1..MaxChunk are offered to the encryptor (besides 0 and > 16 MiB)
MaxChunk == 2
\* outcomes of the random generator (salt and base nonce) per encryption
NumSeeds == 1
\* writes (header, frames) a concurrent operation makes to its temp file
MaxWrites == 2
\* collision candidates 1..MaxFill may exist before resolve_output_path runs
MaxFill == 3
\* resolve_output_path calls in a row over one directory
MaxCalls == 2
\* entries of one archive, input files of one archive
MaxEntries == 2
\* files of one batch
MaxFiles == 2

(* ------------------------- program constants -------------------------- *)
DEFAULT_CHUNK_SIZE == 1048576
MAX_CHUNK_SIZE == 16777216
STREAMING_VERSION_V4 == 4
STREAMING_VERSION_V5 == 5
STREAMING_VERSION_V6 == 6
STREAMING_VERSION_V7 == 7
FLAG_KEY_FILE_USED == 1
NONCE_SIZE == 12
TAG_SIZE == 16
MAX_CHUNKS == 10000000
MEMORY_COST == 65536
TIME_COST == 3
PARALLELISM == 4
KEY_LENGTH == 32
SALT_LENGTH == 16
MIN_MEMORY_COST == 8192
MAX_MEMORY_COST == 262144
MIN_TIME_COST == 1
MAX_TIME_COST == 10
MIN_PARALLELISM == 1
MAX_PARALLELISM == 16
MIN_SALT_LENGTH == 16
MAX_SALT_LENGTH == 64
MIN_KEY_LENGTH == 32
MAX_KEY_LENGTH == 32
MAX_KEY_FILE_SIZE == 10485760
KDF_ARGON2ID == 1
COMPRESSION_NONE == 0
COMPRESSION_ZSTD == 1
DEFAULT_COMPRESSION_LEVEL == 3

\* The largest integer of the checker.  A decoded u32/u64 field that does not
\* fit is held at Huge: every bound the code compares a field with is smaller.
Huge == 2147483646 + 1

(* ------------------------------ bytes --------------------------------- *)
Min(a, b) == IF a < b THEN a ELSE b

Pow2(k) == 2 ^ k

\* b ^ (1 << k) for a byte b
FlipBit(b, k) == IF (b \div Pow2(k)) % 2 = 1 THEN b - Pow2(k) ELSE b + Pow2(k)

\* xs[from..from+n-1] (1-based), the n bytes a read_exact returns
Slice(xs, from, n) == [i \in 1..n |-> xs[from + i - 1]]

\* n bytes, each b
Repeat(b, n) == [i \in 1..n |-> b]

\* u32::to_le_bytes
U32LE(n) ==
  << n % 256, (n \div 256) % 256, (n \div 65536) % 256, (n \div 16777216) % 256 >>

\* u64::to_le_bytes (for values the checker's integers hold)
U64LE(n) == U32LE(n) \o << 0, 0, 0, 0 >>

\* u32::from_le_bytes, held at Huge from 2^31 on
LEU32(bs) ==
  IF bs[4] >= 128 THEN Huge
  ELSE bs[1] + 256 * bs[2] + 65536 * bs[3] + 16777216 * bs[4]

\* u64::from_le_bytes, held at Huge from 2^31 on
LEU64(bs) ==
  IF bs[5] # 0 \/ bs[6] # 0 \/ bs[7] # 0 \/ bs[8] # 0 THEN Huge
  ELSE LEU32(Slice(bs, 1, 4))

\* a bound on the plaintext that adds where it should multiply
SatMulAsSum(a, b) == a + b

\* u64::saturating_mul, saturating at Huge
SatMul(a, b) ==
  IF a = 0 \/ b = 0 THEN 0
  ELSE IF a > Huge \div b THEN Huge
  ELSE a * b

\* u64::saturating_sub
SatSub(a, b) == IF a > b THEN a - b ELSE 0

\* a number in 0..250 read off a byte string (used to render ciphertext bytes)
Fold(xs) ==
  IF Len(xs) = 0 THEN 7
  ELSE (Len(xs) * 31 + xs[1] + 3 * xs[Len(xs)] + 5 * xs[(Len(xs) + 1) \div 2]) % 251

(* --------------------------- error kinds ------------------------------ *)
\* CryptoError variants the streaming functions return
ErrKinds ==
  { "InvalidPassword", "FormatError", "EncryptionFailed", "Io",
    "KeyFileRequired", "KeyFileError" }

NoErr == "none"

(* ---------------------------- file system ----------------------------- *)
InPath == "in"
EncPath == "enc"
DecPath == "dec"
KeyPaths == { "k0", "k1", "k2" }
TmpPaths == { "tmp1", "tmp2" }
Paths == { InPath, EncPath, DecPath } \cup KeyPaths \cup TmpPaths

NoFile == [exists |-> FALSE, data |-> << >>]
File(d) == [exists |-> TRUE, data |-> d]

\* what lies at the output paths before the program runs, when anything does
OldData == << 9, 9 >>

\* key files on disk: k0 is empty (hash_key_file rejects it), k1 and k2 differ
KeyFileData(p) ==
  IF p = "k1" THEN << 10, 11 >> ELSE IF p = "k2" THEN << 20 >> ELSE << >>

\* the plaintexts of the input file: i mod 256 patterns and a run of equal bytes
Plaintexts ==
  { [i \in 1..n |-> i] : n \in 0..MaxLen } \cup { << 5, 5 >> }

\* passwords offered to both operations; << >> is the empty password
Passwords == { << >>, << 1 >>, << 2 >> }

\* a "temp file" that is the encryption's output path itself
TempAtOutput(f) == EncPath

\* a temp file of one fixed name
FixedTemp(f) == "tmp1"

\* NamedTempFile::new_in picks a name no file has
FreshTemp(f) == IF ~f["tmp1"].exists THEN "tmp1" ELSE "tmp2"

(* ----------------------- idealised cryptography ------------------------ *)
\* blake3::Hasher over the key file's bytes: the digest stands for its input
Blake3(data) == [blake3 |-> data]

\* password_bytes || key_file_hash.  The digest has a fixed length, so the
\* concatenation is held as the pair (password, digest); << >> is "no digest".
combine_password_and_keyfile(pw, hash) == [pw |-> pw, kfh |-> << hash >>]

\* the key material of a password alone
PasswordMaterial(pw) == [pw |-> pw, kfh |-> << >>]

\* KdfParams::default()
DefaultKdfParams ==
  [ algorithm |-> KDF_ARGON2ID, memory_cost_kib |-> MEMORY_COST,
    time_cost |-> TIME_COST, parallelism |-> PARALLELISM,
    key_length |-> KEY_LENGTH, salt_length |-> SALT_LENGTH ]

\* an algorithm byte that is never refused
KdfAlgorithmAny(b) == TRUE

\* KdfAlgorithm::from_u8
KdfAlgorithmKnown(b) == b = KDF_ARGON2ID

\* a validation that lets any time cost through (as if it were clamped later)
KdfValidateTimeClamped(p) ==
  IF p.memory_cost_kib < MIN_MEMORY_COST \/ p.memory_cost_kib > MAX_MEMORY_COST
    THEN "FormatError"
  ELSE IF p.parallelism < MIN_PARALLELISM \/ p.parallelism > MAX_PARALLELISM
    THEN "FormatError"
  ELSE IF p.key_length < MIN_KEY_LENGTH \/ p.key_length > MAX_KEY_LENGTH
    THEN "FormatError"
  ELSE IF p.salt_length < MIN_SALT_LENGTH \/ p.salt_length > MAX_SALT_LENGTH
    THEN "FormatError"
  ELSE NoErr

\* KdfParams::validate: NoErr, or the error kind
KdfValidate(p) ==
  IF p.memory_cost_kib < MIN_MEMORY_COST \/ p.memory_cost_kib > MAX_MEMORY_COST
    THEN "FormatError"
  ELSE IF p.time_cost < MIN_TIME_COST \/ p.time_cost > MAX_TIME_COST
    THEN "FormatError"
  ELSE IF p.parallelism < MIN_PARALLELISM \/ p.parallelism > MAX_PARALLELISM
    THEN "FormatError"
  ELSE IF p.key_length < MIN_KEY_LENGTH \/ p.key_length > MAX_KEY_LENGTH
    THEN "FormatError"
  ELSE IF p.salt_length < MIN_SALT_LENGTH \/ p.salt_length > MAX_SALT_LENGTH
    THEN "FormatError"
  ELSE NoErr

NoKey == [material |-> PasswordMaterial(<< >>), salt |-> << >>, params |-> DefaultKdfParams]

\* a key derivation that leaves the password material out
DeriveKeySaltOnly(material, salt, params) ==
  IF KdfValidate(params) # NoErr THEN [err |-> KdfValidate(params), key |-> NoKey]
  ELSE IF Len(salt) # params.salt_length THEN [err |-> "FormatError", key |-> NoKey]
  ELSE [err |-> NoErr,
        key |-> [material |-> PasswordMaterial(<< >>), salt |-> salt, params |-> params]]

\* derive_key_with_material / derive_key_with_params: Argon2id as a free
\* constructor over (material, salt, params)
DeriveKey(material, salt, params) ==
  IF KdfValidate(params) # NoErr THEN [err |-> KdfValidate(params), key |-> NoKey]
  ELSE IF Len(salt) # params.salt_length THEN [err |-> "FormatError", key |-> NoKey]
  ELSE [err |-> NoErr, key |-> [material |-> material, salt |-> salt, params |-> params]]

\* hash_key_file on the file at path p of file system f
HashKeyFile(f, p) ==
  IF ~f[p].exists THEN [err |-> "Io", hash |-> Blake3(<< >>)]
  ELSE IF Len(f[p].data) = 0 THEN [err |-> "KeyFileError", hash |-> Blake3(<< >>)]
  ELSE IF Len(f[p].data) > MAX_KEY_FILE_SIZE THEN [err |-> "KeyFileError", hash |-> Blake3(<< >>)]
  ELSE [err |-> NoErr, hash |-> Blake3(f[p].data)]

\* a chunk nonce that leaves the chunk index out
derive_chunk_nonce_fixed(base_nonce, chunk_index) == [base |-> base_nonce, index |-> 0]

\* derive_chunk_nonce: BLAKE3(domain tag || base_nonce || chunk_index), a free
\* constructor over (base_nonce, chunk_index)
derive_chunk_nonce(base_nonce, chunk_index) == [base |-> base_nonce, index |-> chunk_index]

\* numbers that render a key and a nonce into ciphertext bytes
KeyNum(key) ==
  ( Fold(key.material.pw) + Fold(key.salt)
    + (IF key.material.kfh = << >> THEN 0 ELSE Fold(key.material.kfh[1].blake3)) ) % 256

NonceNum(nonce) == (Fold(nonce.base) + nonce.index) % 256

\* the ciphertext body of msg: same length, a keystream added bytewise
AeadBody(key, nonce, msg) ==
  [j \in 1..Len(msg) |-> (msg[j] + KeyNum(key) + NonceNum(nonce) + j) % 256]

\* the 16 tag bytes; tags of distinct chunk indices (below 256) differ
AeadTag(key, nonce, aad, body) ==
  [k \in 1..TAG_SIZE |->
     (Fold(aad) + Fold(body) + KeyNum(key) + NonceNum(nonce) + k * (nonce.index + 1)) % 256]

\* Aes256Gcm::encrypt: ciphertext || tag
AeadEncrypt(key, nonce, aad, msg) ==
  AeadBody(key, nonce, msg) \o AeadTag(key, nonce, aad, AeadBody(key, nonce, msg))

\* the entry of `sealed` that an encryption leaves
Sealed(key, nonce, aad, msg) ==
  [key |-> key, nonce |-> nonce, aad |-> aad, ct |-> AeadEncrypt(key, nonce, aad, msg), msg |-> msg]

\* Aes256Gcm::decrypt against the ciphertexts s the cipher produced: the set of
\* plaintexts ct opens to (empty: the tag does not verify)
AeadOpen(s, key, nonce, aad, ct) ==
  { r.msg : r \in { x \in s : x.key = key /\ x.nonce = nonce /\ x.aad = aad /\ x.ct = ct } }

(* ------------------------------- ZSTD --------------------------------- *)
ZstdMagic == << 40, 181, 47, 253 >>

\* zstd::encode_all on a short input: one frame with a single raw block
\* (magic, frame header descriptor 0x20, content size, 3-byte block header)
compress_zstd(data) ==
  ZstdMagic \o << 32, Len(data) >>
    \o << (Len(data) * 8 + 1) % 256, (Len(data) * 8 + 1) \div 256, 0 >> \o data

\* compress(data, config)
compress(data, config) ==
  IF config.algorithm = COMPRESSION_NONE THEN data ELSE compress_zstd(data)

\* does data parse as one raw-block frame?
ZstdWellFormed(data) ==
  /\ Len(data) >= 9
  /\ Slice(data, 1, 4) = ZstdMagic
  /\ data[5] = 32
  /\ data[6] = Len(data) - 9
  /\ data[7] = (data[6] * 8 + 1) % 256
  /\ data[8] = (data[6] * 8 + 1) \div 256
  /\ data[9] = 0

\* decompress_with_limit(data, algorithm, max_size)
decompress_with_limit(data, algorithm, max_size) ==
  IF algorithm = COMPRESSION_NONE
    THEN IF Len(data) > max_size THEN [err |-> "FormatError", out |-> << >>]
         ELSE [err |-> NoErr, out |-> data]
  ELSE IF ~ZstdWellFormed(data) THEN [err |-> "FormatError", out |-> << >>]
  ELSE IF Len(data) - 9 > max_size THEN [err |-> "FormatError", out |-> << >>]
  ELSE [err |-> NoErr, out |-> Slice(data, 10, Len(data) - 9)]

\* zstd_safe::compress_bound
compress_bound(n) ==
  n + (n \div 256) + (IF n < 131072 THEN (131072 - n) \div 2048 ELSE 0)

\* a bound four bytes too generous
max_ciphertext_len_loose(chunk_size, algorithm) ==
  (IF algorithm = COMPRESSION_ZSTD THEN compress_bound(chunk_size) ELSE chunk_size)
    + TAG_SIZE + 4

\* max_ciphertext_len(chunk_size, compression); any algorithm but Zstd takes the
\* `_ => chunk_size` arm
max_ciphertext_len(chunk_size, algorithm) ==
  (IF algorithm = COMPRESSION_ZSTD THEN compress_bound(chunk_size) ELSE chunk_size) + TAG_SIZE

(* ---------------------------- header codec ---------------------------- *)
\* CompressionConfig::none()
CompressionNone == [algorithm |-> COMPRESSION_NONE, level |-> 0]

\* CompressionConfig::default()
CompressionZstd == [algorithm |-> COMPRESSION_ZSTD, level |-> DEFAULT_COMPRESSION_LEVEL]

\* build_header(&HeaderParams): has_comp / has_flags are the Options' is_some()
build_header(p) ==
  << p.version >> \o U32LE(Len(p.salt)) \o << p.kdf_params.algorithm >>
    \o U32LE(p.kdf_params.memory_cost_kib) \o U32LE(p.kdf_params.time_cost)
    \o U32LE(p.kdf_params.parallelism) \o U32LE(p.kdf_params.key_length)
    \o p.salt \o p.base_nonce \o U32LE(p.chunk_size) \o U64LE(p.total_chunks)
    \o (IF p.has_comp
          THEN << p.compression.algorithm, p.compression.level % 256 >> \o U64LE(p.original_size)
          ELSE << >>)
    \o (IF p.has_flags THEN << p.flags >> ELSE << >>)

\* the result of a header parse that failed with error e
ParseFail(e) ==
  [ err |-> e, version |-> 0, kdf_params |-> DefaultKdfParams, salt |-> << >>,
    base_nonce |-> << >>, chunk_size |-> 0, total_chunks |-> 0,
    has_compression |-> FALSE, compression |-> CompressionNone, original_size |-> 0,
    has_flags |-> FALSE, flags |-> 0, key_file_required |-> FALSE, pos |-> 1 ]

\* a test of bit 1 of the flags byte instead of bit 0
KeyFileFlagWrongBit(flags) == (flags \div 2) % 2 = 1

\* the flags byte has bit 0 set (flags & FLAG_KEY_FILE_USED != 0)
KeyFileFlagSet(flags) == flags % 2 = FLAG_KEY_FILE_USED

\* a chunk size check that lets zero through
HeaderChunkSizeInvalidZeroOk(chunk_size) == chunk_size > MAX_CHUNK_SIZE

\* if chunk_size == 0 || chunk_size > MAX_CHUNK_SIZE
HeaderChunkSizeInvalid(chunk_size) == chunk_size = 0 \/ chunk_size > MAX_CHUNK_SIZE

\* decrypt_file_streaming, from the version byte to the KeyFileRequired check:
\* c is the input file's bytes, key_file_given is key_file_path.is_some().
\* Every read_exact that runs out of bytes is an Io error; pos is the offset
\* (1-based) of the first byte after the header.
ParseHeader(c, key_file_given) ==
  IF Len(c) < 1 THEN ParseFail("Io") ELSE
  LET version == c[1]
      has_compression == version = STREAMING_VERSION_V5 \/ version = STREAMING_VERSION_V7
      has_flags == version = STREAMING_VERSION_V6 \/ version = STREAMING_VERSION_V7
  IN
  IF version \notin { STREAMING_VERSION_V4, STREAMING_VERSION_V5,
                      STREAMING_VERSION_V6, STREAMING_VERSION_V7 }
    THEN ParseFail("FormatError") ELSE
  IF Len(c) < 6 THEN ParseFail("Io") ELSE
  LET salt_len == LEU32(Slice(c, 2, 4)) IN
  IF ~KdfAlgorithmKnown(c[6]) THEN ParseFail("FormatError") ELSE
  IF Len(c) < 22 THEN ParseFail("Io") ELSE
  LET kdf_params ==
        [ algorithm |-> c[6], memory_cost_kib |-> LEU32(Slice(c, 7, 4)),
          time_cost |-> LEU32(Slice(c, 11, 4)), parallelism |-> LEU32(Slice(c, 15, 4)),
          key_length |-> LEU32(Slice(c, 19, 4)), salt_length |-> salt_len ]
  IN
  IF KdfValidate(kdf_params) # NoErr THEN ParseFail(KdfValidate(kdf_params)) ELSE
  IF Len(c) < 22 + salt_len + NONCE_SIZE + 4 THEN ParseFail("Io") ELSE
  LET salt == Slice(c, 23, salt_len)
      base_nonce == Slice(c, 23 + salt_len, NONCE_SIZE)
      chunk_size == LEU32(Slice(c, 23 + salt_len + NONCE_SIZE, 4))
      tcAt == 23 + salt_len + NONCE_SIZE + 4
  IN
  IF HeaderChunkSizeInvalid(chunk_size) THEN ParseFail("FormatError") ELSE
  IF Len(c) < tcAt + 7 THEN ParseFail("Io") ELSE
  LET total_chunks == LEU64(Slice(c, tcAt, 8))
      compAt == tcAt + 8
  IN
  IF total_chunks > MAX_CHUNKS THEN ParseFail("FormatError") ELSE
  IF has_compression /\ Len(c) < compAt THEN ParseFail("Io") ELSE
  IF has_compression /\ c[compAt] \notin { COMPRESSION_NONE, COMPRESSION_ZSTD }
    THEN ParseFail("FormatError") ELSE
  IF has_compression /\ Len(c) < compAt + 9 THEN ParseFail("Io") ELSE
  LET compression ==
        IF has_compression THEN [algorithm |-> c[compAt], level |-> c[compAt + 1]]
        ELSE CompressionNone
      original_size == IF has_compression THEN LEU64(Slice(c, compAt + 2, 8)) ELSE 0
      flagsAt == IF has_compression THEN compAt + 10 ELSE compAt
  IN
  IF has_compression /\ original_size > SatMul(total_chunks, chunk_size)
    THEN ParseFail("FormatError") ELSE
  IF has_flags /\ Len(c) < flagsAt THEN ParseFail("Io") ELSE
  LET flags == IF has_flags THEN c[flagsAt] ELSE 0
      key_file_required == KeyFileFlagSet(flags)
  IN
  IF key_file_required /\ ~key_file_given THEN ParseFail("KeyFileRequired") ELSE
  [ err |-> NoErr, version |-> version, kdf_params |-> kdf_params, salt |-> salt,
    base_nonce |-> base_nonce, chunk_size |-> chunk_size, total_chunks |-> total_chunks,
    has_compression |-> has_compression, compression |-> compression,
    original_size |-> original_size, has_flags |-> has_flags, flags |-> flags,
    key_file_required |-> key_file_required,
    pos |-> IF has_flags THEN flagsAt + 1 ELSE flagsAt ]

\* HeaderParams that keep only the meaningful bit of the flags byte
HeaderParamsOfFlagsMasked(h) ==
  [ version |-> h.version, kdf_params |-> h.kdf_params, salt |-> h.salt,
    base_nonce |-> h.base_nonce, chunk_size |-> h.chunk_size,
    total_chunks |-> h.total_chunks, has_comp |-> h.has_compression,
    compression |-> h.compression, original_size |-> h.original_size,
    has_flags |-> h.has_flags, flags |-> h.flags % 2 ]

\* the HeaderParams decrypt rebuilds its AAD from (compression is Some exactly
\* for V5/V7, flags is Some exactly for V6/V7)
HeaderParamsOf(h) ==
  [ version |-> h.version, kdf_params |-> h.kdf_params, salt |-> h.salt,
    base_nonce |-> h.base_nonce, chunk_size |-> h.chunk_size,
    total_chunks |-> h.total_chunks, has_comp |-> h.has_compression,
    compression |-> h.compression, original_size |-> h.original_size,
    has_flags |-> h.has_flags, flags |-> h.flags ]

(* ------------------------------- state -------------------------------- *)
VARIABLES
  fs,      \* the file system: path -> [exists, data]
  sealed,  \* every ciphertext the AEAD cipher produced (ideal AES-256-GCM)
  enc,     \* the encrypt_file_streaming call: position, arguments, locals
  dec,     \* the decrypt_file_streaming call: position, arguments, locals
  tamper,  \* what was done to the container between the two calls
  conc,    \* concurrent operations writing into one directory
  res,     \* resolve_output_path calls over a directory
  arch,    \* an archive and its extraction
  batch,   \* a batch operation and its per-file results
  plan,    \* the chunk layout of one encryption, by lengths
  race,    \* commands racing for one output path
  prior    \* the outcome of an earlier decryption of the same container

\* the variables of the subsystems other than the two streaming calls
rest == << conc, res, arch, batch, plan, race, prior >>

vars == << fs, sealed, enc, dec, tamper, rest >>

\* the value of a subsystem's variable while the subsystem is not in use
NotRunning == << >>

\* Option<&Path>::None for key_file_path, and "no temp file"
NoKeyFile == "none"

\* before: the file at the output path when the call began; ops: what the call
\* did at the output path; fault: a file operation failed in the environment
\* (disk, permissions), not because of the call's input
EncIdle ==
  [ pc |-> "idle", err |-> NoErr, password |-> << >>, chunk_size_arg |-> 0,
    allow_overwrite |-> FALSE, compression |-> CompressionNone, key_file |-> NoKeyFile,
    file_size |-> 0, tmp |-> NoKeyFile, key |-> NoKey, header |-> << >>,
    base_nonce |-> << >>, chunk_size |-> 0, total_chunks |-> 0, version |-> 0,
    chunk_index |-> 0, before |-> NoFile, ops |-> << >>, kdf_calls |-> 0,
    input_opened |-> FALSE, fault |-> FALSE ]

\* tags_ok: the number of chunks whose tag verified; aead_calls: the number
\* of cipher.decrypt calls
DecIdle ==
  [ pc |-> "idle", err |-> NoErr, password |-> << >>, allow_overwrite |-> FALSE,
    key_file |-> NoKeyFile, hdr |-> ParseFail(NoErr), aad |-> << >>, key |-> NoKey,
    tmp |-> NoKeyFile, pos |-> 1, chunk_index |-> 0, plaintext_written |-> 0,
    before |-> NoFile, ops |-> << >>, kdf_calls |-> 0, tags_ok |-> 0, aead_calls |-> 0,
    fault |-> FALSE ]

NoTamper == [kind |-> "none", at |-> 0, bit |-> 0]

\* The state before either call: an input file, the key files, and old files
\* at the output paths for olds = BOOLEAN (none for olds = {FALSE}).
InitWith(olds) ==
  /\ \E p \in Plaintexts, oldEnc \in olds, oldDec \in olds :
       fs = [ q \in Paths |->
                IF q = InPath THEN File(p)
                ELSE IF q \in KeyPaths THEN File(KeyFileData(q))
                ELSE IF q = EncPath /\ oldEnc THEN File(OldData)
                ELSE IF q = DecPath /\ oldDec THEN File(OldData)
                ELSE NoFile ]
  /\ sealed = {}
  /\ enc = EncIdle
  /\ dec = DecIdle
  /\ tamper = NoTamper
  /\ conc = NotRunning /\ res = NotRunning /\ arch = NotRunning /\ batch = NotRunning /\ plan = NotRunning /\ race = NotRunning /\ prior = NotRunning

Init == InitWith(BOOLEAN)

(* ----------------------- encrypt_file_streaming ------------------------ *)
\* OsRng salt and (after the timestamp XOR) base nonce of one encryption
SaltOf(seed) == Repeat(seed, SALT_LENGTH)

BaseNonceOf(seed) == Repeat(100 + seed, NONCE_SIZE)

\* a chunk count that forgets the last, partial chunk
TotalChunksFloor(file_size, chunk_size) == file_size \div chunk_size

\* total_chunks_u64 of encrypt_file_streaming
TotalChunks(file_size, chunk_size) ==
  IF file_size = 0 THEN 1
  ELSE (file_size \div chunk_size) + (IF file_size % chunk_size # 0 THEN 1 ELSE 0)

\* a choice of version with V5 and V6 exchanged
VersionForSwapped(use_compression, use_key_file) ==
  IF ~use_compression /\ ~use_key_file THEN STREAMING_VERSION_V4
  ELSE IF use_compression /\ ~use_key_file THEN STREAMING_VERSION_V6
  ELSE IF ~use_compression /\ use_key_file THEN STREAMING_VERSION_V5
  ELSE STREAMING_VERSION_V7

\* the version byte for (use_compression, use_key_file)
VersionFor(use_compression, use_key_file) ==
  IF ~use_compression /\ ~use_key_file THEN STREAMING_VERSION_V4
  ELSE IF use_compression /\ ~use_key_file THEN STREAMING_VERSION_V5
  ELSE IF ~use_compression /\ use_key_file THEN STREAMING_VERSION_V6
  ELSE STREAMING_VERSION_V7

\* a key derivation that leaves the key file out
KeyForPasswordOnly(f, password, key_file, salt, params) ==
  DeriveKey(PasswordMaterial(password), salt, params)

\* the key of an operation: password alone, or password and key file hash
\* (lines 207-213 and 547-554); key_file is a path or NoKeyFile
KeyFor(f, password, key_file, salt, params) ==
  IF key_file # NoKeyFile
    THEN IF HashKeyFile(f, key_file).err # NoErr
           THEN [err |-> HashKeyFile(f, key_file).err, key |-> NoKey]
           ELSE DeriveKey(combine_password_and_keyfile(password, HashKeyFile(f, key_file).hash),
                          salt, params)
    ELSE DeriveKey(PasswordMaterial(password), salt, params)

\* a removal of the old output whatever allow_overwrite says
RemovesOldAlways(allow_overwrite, f, out) == f[out].exists

\* `allow_overwrite && output_path.exists()`: the old output is removed first
RemovesOld(allow_overwrite, f, out) == allow_overwrite /\ f[out].exists

\* a NamedTempFile whose drop leaves the file behind
DropTempNever(f, tmp) == f

\* the file system once the NamedTempFile tmp is dropped (its file is removed)
DropTemp(f, tmp) == IF tmp # NoKeyFile THEN [f EXCEPT ![tmp] = NoFile] ELSE f

\* a chunk size check that lets every size through
ChunkSizeTooLargeNever(chunk_size) == FALSE

\* if chunk_size > MAX_CHUNK_SIZE
ChunkSizeTooLarge(chunk_size) == chunk_size > MAX_CHUNK_SIZE

\* the call ends with error e
EncFail(e, fault) ==
  /\ enc' = [enc EXCEPT !.pc = "failed", !.err = e, !.tmp = NoKeyFile, !.fault = fault]
  /\ fs' = DropTemp(fs, enc.tmp)

\* Lines 170-298: argument checks, input opened, temp file created, key
\* derived, header built and written.  io says which file operation fails.
EncStartWith(Ws, Cs, Comps, Ks, AOs, IOs) ==
  /\ enc.pc = "idle" /\ dec.pc = "idle"
  /\ \E W \in Ws, C \in Cs, comp \in Comps, K \in Ks, ao \in AOs,
        seed \in 1..NumSeeds, io \in IOs :
       LET chunk_size == IF C = 0 THEN DEFAULT_CHUNK_SIZE ELSE C
           file_size == Len(fs[InPath].data)
           tmp == FreshTemp(fs)
           salt == SaltOf(seed)
           base_nonce == BaseNonceOf(seed)
           k == KeyFor(fs, W, K, salt, DefaultKdfParams)
           total_chunks == TotalChunks(file_size, chunk_size)
           use_compression == comp.algorithm # COMPRESSION_NONE
           use_key_file == K # NoKeyFile
           version == VersionFor(use_compression, use_key_file)
           header == build_header(
             [ version |-> version, kdf_params |-> DefaultKdfParams, salt |-> salt,
               base_nonce |-> base_nonce, chunk_size |-> chunk_size,
               total_chunks |-> total_chunks, has_comp |-> use_compression,
               compression |-> comp, original_size |-> file_size,
               has_flags |-> use_key_file,
               flags |-> IF use_key_file THEN FLAG_KEY_FILE_USED ELSE 0 ])
           args == [enc EXCEPT !.password = W, !.chunk_size_arg = C, !.allow_overwrite = ao,
                               !.compression = comp, !.key_file = K,
                               !.before = fs[EncPath]]
           rejected(e) ==
             /\ enc' = [args EXCEPT !.pc = "failed", !.err = e]
             /\ fs' = fs
           fail(e, kdf, fault) ==
             /\ enc' = [args EXCEPT !.pc = "failed", !.err = e, !.kdf_calls = kdf,
                                    !.input_opened = TRUE, !.fault = fault]
             /\ fs' = fs
       IN
       /\ IF Len(W) = 0 THEN rejected("FormatError")
          ELSE IF ChunkSizeTooLarge(chunk_size) THEN rejected("FormatError")
          ELSE IF ~fs[InPath].exists THEN fail("Io", 0, FALSE)
          ELSE IF io = "tempfile" THEN fail("Io", 0, TRUE)
          ELSE IF k.err # NoErr THEN fail(k.err, 0, FALSE)
          ELSE IF total_chunks > MAX_CHUNKS THEN fail("FormatError", 1, FALSE)
          ELSE IF io = "write" THEN fail("Io", 1, TRUE)
          ELSE /\ enc' = [args EXCEPT !.pc = "chunks", !.file_size = file_size, !.tmp = tmp,
                                      !.input_opened = TRUE,
                                      !.key = k.key, !.header = header,
                                      !.base_nonce = base_nonce, !.chunk_size = chunk_size,
                                      !.total_chunks = total_chunks, !.version = version,
                                      !.kdf_calls = 1]
               /\ fs' = [fs EXCEPT ![tmp] = File(header)]
       /\ UNCHANGED << sealed, dec, tamper, rest >>

\* the plaintext bytes of chunk chunk_index (lines 305-310)
ChunkPlain(data, chunk_size, chunk_index) ==
  Slice(data, chunk_index * chunk_size + 1,
        Min(chunk_size, SatSub(Len(data), chunk_index * chunk_size)))

\* a frame without its length prefix
FrameNoPrefix(ct) == ct

\* [length:4][ciphertext+tag]
Frame(ct) == U32LE(Len(ct)) \o ct

\* Lines 304-353, one turn of the loop: read, compress, encrypt, check the
\* length, write the frame.  io is whether the file operations succeed.
EncChunkWith(IOs) ==
  /\ enc.pc = "chunks" /\ enc.chunk_index < enc.total_chunks
  /\ \E io \in IOs :
       LET plain == ChunkPlain(fs[InPath].data, enc.chunk_size, enc.chunk_index)
           nonce == derive_chunk_nonce(enc.base_nonce, enc.chunk_index)
           data_to_encrypt == compress(plain, enc.compression)
           ct == AeadEncrypt(enc.key, nonce, enc.header, data_to_encrypt)
       IN
       IF ~io THEN EncFail("Io", TRUE) /\ UNCHANGED sealed
       ELSE IF Len(ct) > max_ciphertext_len(enc.chunk_size, enc.compression.algorithm)
         THEN /\ EncFail("FormatError", FALSE)
              /\ sealed' = sealed \cup { Sealed(enc.key, nonce, enc.header, data_to_encrypt) }
       ELSE /\ fs' = [fs EXCEPT ![enc.tmp] = File(fs[enc.tmp].data \o Frame(ct))]
            /\ enc' = [enc EXCEPT !.chunk_index = enc.chunk_index + 1]
            /\ sealed' = sealed \cup { Sealed(enc.key, nonce, enc.header, data_to_encrypt) }
  /\ UNCHANGED << dec, tamper, rest >>

\* Lines 355-367: flush, remove the old output when allow_overwrite, persist.
\* persist is a rename: it replaces whatever is at the output path.
EncFinishWith(IOs) ==
  /\ enc.pc = "chunks" /\ enc.chunk_index = enc.total_chunks
  /\ \E io \in IOs :
       LET removes == RemovesOld(enc.allow_overwrite, fs, EncPath)
           removed == [fs EXCEPT ![EncPath] = NoFile]
       IN
       /\ io = "remove" => removes
       /\ IF io = "flush" THEN EncFail("Io", TRUE)
          ELSE IF io = "remove" THEN EncFail("Io", TRUE)
          ELSE IF io = "persist"
            THEN /\ enc' = [enc EXCEPT !.pc = "failed", !.err = "Io", !.tmp = NoKeyFile,
                                       !.fault = TRUE,
                                       !.ops = IF removes THEN << "remove" >> ELSE << >>]
                 /\ fs' = DropTemp(IF removes THEN removed ELSE fs, enc.tmp)
          ELSE /\ enc' = [enc EXCEPT !.pc = "done", !.tmp = NoKeyFile,
                                     !.ops = (IF removes THEN << "remove" >> ELSE << >>)
                                               \o << "rename" >>]
               /\ fs' = [fs EXCEPT ![EncPath] = fs[enc.tmp], ![enc.tmp] = NoFile]
  /\ UNCHANGED << sealed, dec, tamper, rest >>

(* ----------------------- decrypt_file_streaming ------------------------ *)
\* the call ends with error e
DecFail(e, fault) ==
  /\ dec' = [dec EXCEPT !.pc = "failed", !.err = e, !.tmp = NoKeyFile, !.fault = fault]
  /\ fs' = DropTemp(fs, dec.tmp)

\* Lines 394-544: password check, input opened, header parsed and validated,
\* KeyFileRequired, header rebuilt as AAD.  On success: HeaderParsed.
DecStartWith(Ws, Ks, AOs) ==
  /\ dec.pc = "idle" /\ enc.pc \in { "idle", "done" }
  /\ \E W \in Ws, K \in Ks, ao \in AOs :
       LET h == ParseHeader(fs[EncPath].data, K # NoKeyFile)
           args == [dec EXCEPT !.password = W, !.key_file = K, !.allow_overwrite = ao,
                               !.before = fs[DecPath]]
       IN
       IF Len(W) = 0 THEN dec' = [args EXCEPT !.pc = "failed", !.err = "FormatError"]
       ELSE IF ~fs[EncPath].exists THEN dec' = [args EXCEPT !.pc = "failed", !.err = "Io"]
       ELSE IF h.err # NoErr THEN dec' = [args EXCEPT !.pc = "failed", !.err = h.err]
       ELSE dec' = [args EXCEPT !.pc = "parsed", !.hdr = h,
                                !.aad = build_header(HeaderParamsOf(h)), !.pos = h.pos]
  /\ UNCHANGED << fs, sealed, enc, tamper, rest >>

\* a key file hashed whenever one is supplied
DecKeyFileAsGiven(key_file_required, key_file) == key_file

\* `if key_file_required { hash_key_file(kf_path) ... } else { password }`:
\* the key file that goes into the key
DecKeyFile(key_file_required, key_file) ==
  IF key_file_required THEN key_file ELSE NoKeyFile

\* Lines 546-575: key derived (with the key file's hash when the header
\* requires one), temp file created.  On success: KeyDerived.
DecDeriveKeyWith(IOs) ==
  /\ dec.pc = "parsed"
  /\ \E io \in IOs :
       LET k == KeyFor(fs, dec.password,
                       DecKeyFile(dec.hdr.key_file_required, dec.key_file),
                       dec.hdr.salt, dec.hdr.kdf_params)
           tmp == FreshTemp(fs)
       IN
       IF k.err # NoErr THEN DecFail(k.err, FALSE)
       ELSE IF ~io
         THEN /\ dec' = [dec EXCEPT !.pc = "failed", !.err = "Io", !.kdf_calls = 1,
                                    !.fault = TRUE]
              /\ fs' = fs
       ELSE /\ dec' = [dec EXCEPT !.pc = "keyed", !.key = k.key, !.tmp = tmp, !.kdf_calls = 1]
            /\ fs' = [fs EXCEPT ![tmp] = File(<< >>)]
  /\ UNCHANGED << sealed, enc, tamper, rest >>

\* a cap that is the chunk size whatever is left of original_size
ExpectedPlaintextLenChunkOnly(h, plaintext_written) == h.chunk_size

\* expected_plaintext_len of a chunk (lines 610-615)
ExpectedPlaintextLen(h, plaintext_written) ==
  IF h.has_compression
    THEN Min(h.chunk_size, SatSub(h.original_size, plaintext_written))
    ELSE h.chunk_size

\* the outcome of one turn of the loop: error, plaintext, frame length,
\* whether the tag verified, and whether cipher.decrypt was called at all
ChunkResult(e, out, len, tag, aead) ==
  [err |-> e, out |-> out, len |-> len, tag |-> tag, aead |-> aead]

\* Lines 577-641, one turn of the loop on input bytes c: the frame is read and
\* bounded, the tag verified, the payload decompressed or bounded.
DecodeChunk(c, d, s) ==
  IF Len(c) < d.pos + 3 THEN ChunkResult("Io", << >>, 0, FALSE, FALSE) ELSE
  LET chunk_len == LEU32(Slice(c, d.pos, 4))
      maxlen == max_ciphertext_len(d.hdr.chunk_size,
                  IF d.hdr.has_compression THEN d.hdr.compression.algorithm
                  ELSE COMPRESSION_NONE)
  IN
  IF chunk_len > maxlen THEN ChunkResult("FormatError", << >>, 0, FALSE, FALSE) ELSE
  IF Len(c) < d.pos + 3 + chunk_len THEN ChunkResult("Io", << >>, 0, FALSE, FALSE) ELSE
  LET ciphertext == Slice(c, d.pos + 4, chunk_len)
      nonce == derive_chunk_nonce(d.hdr.base_nonce, d.chunk_index)
      opened == AeadOpen(s, d.key, nonce, d.aad, ciphertext)
  IN
  IF opened = {} THEN ChunkResult("InvalidPassword", << >>, 0, FALSE, TRUE) ELSE
  LET decrypted == CHOOSE m \in opened : TRUE
      expected == ExpectedPlaintextLen(d.hdr, d.plaintext_written)
      plain == IF d.hdr.has_compression
                 THEN decompress_with_limit(decrypted, d.hdr.compression.algorithm, expected)
                 ELSE IF Len(decrypted) > expected
                        THEN [err |-> "FormatError", out |-> << >>]
                        ELSE [err |-> NoErr, out |-> decrypted]
  IN
  IF plain.err # NoErr THEN ChunkResult(plain.err, << >>, 0, TRUE, TRUE) ELSE
  ChunkResult(NoErr, plain.out, chunk_len, TRUE, TRUE)

\* a loop that ends quietly where the input ends
ChunksLeftUntilEof(d, c) == d.chunk_index < d.hdr.total_chunks /\ d.pos <= Len(c)

\* a loop that goes on while the input has bytes left
ChunksLeftWhileInput(d, c) == d.pos <= Len(c)

\* a loop that stops one chunk early
ChunksLeftSkipLast(d, c) == d.chunk_index + 1 < d.hdr.total_chunks

\* `for chunk_index in 0..total_chunks`: is there another turn?  (c is the
\* input file's bytes: the loop does not look at them)
ChunksLeft(d, c) == d.chunk_index < d.hdr.total_chunks

\* one turn of the chunk loop: ChunkDecrypted(chunk_index).  io is whether
\* the write to the temp file succeeds.
DecChunkWith(IOs) ==
  /\ dec.pc = "keyed" /\ ChunksLeft(dec, fs[EncPath].data)
  /\ \E io \in IOs :
       LET r == DecodeChunk(fs[EncPath].data, dec, sealed) IN
       IF r.err # NoErr \/ ~io
         THEN /\ dec' = [dec EXCEPT !.pc = "failed",
                                    !.err = IF r.err # NoErr THEN r.err ELSE "Io",
                                    !.fault = (r.err = NoErr), !.tmp = NoKeyFile,
                                    !.tags_ok = dec.tags_ok + (IF r.tag THEN 1 ELSE 0),
                                    !.aead_calls = dec.aead_calls + (IF r.aead THEN 1 ELSE 0)]
              /\ fs' = DropTemp(fs, dec.tmp)
         ELSE /\ dec' = [dec EXCEPT !.chunk_index = dec.chunk_index + 1,
                                    !.pos = dec.pos + 4 + r.len,
                                    !.plaintext_written = dec.plaintext_written + Len(r.out),
                                    !.tags_ok = dec.tags_ok + 1,
                                    !.aead_calls = dec.aead_calls + 1]
              /\ fs' = [fs EXCEPT ![dec.tmp] = File(fs[dec.tmp].data \o r.out)]
  /\ UNCHANGED << sealed, enc, tamper, rest >>

\* Lines 643-662: the size check of V5/V7, flush, remove the old output when
\* allow_overwrite, persist.  On success: Finalised.
DecFinishWith(IOs) ==
  /\ dec.pc = "keyed" /\ ~ChunksLeft(dec, fs[EncPath].data)
  /\ \E io \in IOs :
       LET removes == RemovesOld(dec.allow_overwrite, fs, DecPath)
           removed == [fs EXCEPT ![DecPath] = NoFile]
       IN
       /\ io = "remove" => removes
       /\ IF dec.hdr.has_compression /\ dec.plaintext_written # dec.hdr.original_size
            THEN DecFail("FormatError", FALSE)
          ELSE IF io = "flush" THEN DecFail("Io", TRUE)
          ELSE IF io = "remove" THEN DecFail("Io", TRUE)
          ELSE IF io = "persist"
            THEN /\ dec' = [dec EXCEPT !.pc = "failed", !.err = "Io", !.tmp = NoKeyFile,
                                       !.fault = TRUE,
                                       !.ops = IF removes THEN << "remove" >> ELSE << >>]
                 /\ fs' = DropTemp(IF removes THEN removed ELSE fs, dec.tmp)
          ELSE /\ dec' = [dec EXCEPT !.pc = "done", !.tmp = NoKeyFile,
                                     !.ops = (IF removes THEN << "remove" >> ELSE << >>)
                                               \o << "rename" >>]
               /\ fs' = [fs EXCEPT ![DecPath] = fs[dec.tmp], ![dec.tmp] = NoFile]
  /\ UNCHANGED << sealed, enc, tamper, rest >>

(* --------------------------- specification ---------------------------- *)
\* chunk_size arguments: the default (0), 1..MaxChunk, and one above the maximum
ChunkSizes == { 0, MAX_CHUNK_SIZE + 1 } \cup (1..MaxChunk)

KeyFileArgs == { NoKeyFile } \cup KeyPaths

\* which file operation of a step fails in the environment, if any
StartIOs == { "ok", "tempfile", "write" }

FinishIOs == { "ok", "flush", "remove", "persist" }

EncStart ==
  EncStartWith(Passwords, ChunkSizes, { CompressionNone, CompressionZstd },
               KeyFileArgs, BOOLEAN, StartIOs)

EncChunk == EncChunkWith(BOOLEAN)

EncFinish == EncFinishWith(FinishIOs)

DecStart == DecStartWith(Passwords, KeyFileArgs, BOOLEAN)

DecDeriveKey == DecDeriveKeyWith(BOOLEAN)

DecChunk == DecChunkWith(BOOLEAN)

DecFinish == DecFinishWith(FinishIOs)

\* one encryption, then one decryption of what lies at the container's path,
\* with any arguments and any failing file operation
Next ==
  \/ EncStart
  \/ EncChunk
  \/ EncFinish
  \/ DecStart
  \/ DecDeriveKey
  \/ DecChunk
  \/ DecFinish

Spec == Init /\ [][Next]_vars

(* ------------------- damage to a container at rest -------------------- *)
\* the container just written, untouched, and no decryption begun
Untouched == enc.pc = "done" /\ dec.pc = "idle" /\ tamper = NoTamper

\* one bit of one byte of the container is flipped
FlipOneBit ==
  /\ Untouched
  /\ \E i \in 1..Len(fs[EncPath].data), k \in 0..7 :
       /\ fs' = [fs EXCEPT ![EncPath] =
                   File([fs[EncPath].data EXCEPT ![i] = FlipBit(@, k)])]
       /\ tamper' = [kind |-> "flip", at |-> i, bit |-> k]
  /\ UNCHANGED << sealed, enc, dec, rest >>

\* the container is cut to a proper prefix of n bytes
Truncate ==
  /\ Untouched
  /\ \E n \in 0..(Len(fs[EncPath].data) - 1) :
       /\ fs' = [fs EXCEPT ![EncPath] = File(SubSeq(fs[EncPath].data, 1, n))]
       /\ tamper' = [kind |-> "truncate", at |-> n, bit |-> 0]
  /\ UNCHANGED << sealed, enc, dec, rest >>

\* the frames of container c from position pos on, n of them
RECURSIVE FramesOf(_, _, _)
FramesOf(c, pos, n) ==
  IF n = 0 THEN << >>
  ELSE LET len == 4 + LEU32(Slice(c, pos, 4))
       IN << Slice(c, pos, len) >> \o FramesOf(c, pos + len, n - 1)

\* the concatenation of the frames in the order perm
RECURSIVE JoinFrames(_, _, _)
JoinFrames(frames, perm, i) ==
  IF i > Len(frames) THEN << >>
  ELSE frames[perm[i]] \o JoinFrames(frames, perm, i + 1)

\* the non-identity permutations of 1..n
FramePermutations(n) ==
  { f \in [1..n -> 1..n] :
      /\ \A a, b \in 1..n : f[a] = f[b] => a = b
      /\ \E a \in 1..n : f[a] # a }

\* the frames of the container are reordered, the header left as it is
ReorderFrames ==
  /\ Untouched
  /\ enc.total_chunks >= 2
  /\ LET header_len == Len(enc.header)
         frames == FramesOf(fs[EncPath].data, header_len + 1, enc.total_chunks)
     IN \E perm \in FramePermutations(enc.total_chunks) :
          /\ fs' = [fs EXCEPT ![EncPath] =
                      File(SubSeq(fs[EncPath].data, 1, header_len)
                             \o JoinFrames(frames, perm, 1))]
          /\ tamper' = [kind |-> "reorder", at |-> perm[1], bit |-> 0]
  /\ UNCHANGED << sealed, enc, dec, rest >>

\* a valid container is written: good arguments, no failing file operation
EncStartValid ==
  EncStartWith({ << 1 >> }, 1..MaxChunk, { CompressionNone, CompressionZstd },
               { NoKeyFile, "k1" }, { FALSE }, { "ok" })

\* decryption with the password and key file the container was written with
DecStartCorrect ==
  /\ enc.pc = "done"
  /\ DecStartWith({ enc.password }, { enc.key_file }, { FALSE })

\* a valid container is written, damaged at rest in one of the three ways (or
\* not at all), and decrypted with the right password and key file; no file
\* operation fails in the environment
NextTamper ==
  \/ EncStartValid
  \/ EncChunkWith({ TRUE })
  \/ EncFinishWith({ "ok" })
  \/ FlipOneBit
  \/ Truncate
  \/ ReorderFrames
  \/ DecStartCorrect
  \/ DecDeriveKeyWith({ TRUE })
  \/ DecChunkWith({ TRUE })
  \/ DecFinishWith({ "ok" })

SpecTamper == InitWith({ FALSE }) /\ [][NextTamper]_vars

(* -------------------------- crafted headers --------------------------- *)
\* a header field: its name, first byte, width, and the values written to it
Field(name, at, width, values) ==
  [name |-> name, at |-> at, width |-> width, values |-> values]

\* the fields of the header of version v as build_header lays them out (salt
\* of SALT_LENGTH bytes), with values at and around the limits of each
HeaderFields(v) ==
  LET chunkAt == 23 + SALT_LENGTH + NONCE_SIZE
      has_comp == v = STREAMING_VERSION_V5 \/ v = STREAMING_VERSION_V7
      has_flags == v = STREAMING_VERSION_V6 \/ v = STREAMING_VERSION_V7
      compAt == chunkAt + 12
      flagsAt == IF has_comp THEN compAt + 10 ELSE compAt
  IN
  { Field("version", 1, 1, (STREAMING_VERSION_V4 - 1)..(STREAMING_VERSION_V7 + 1)),
    Field("salt_length", 2, 4,
          { MIN_SALT_LENGTH - 1, MIN_SALT_LENGTH, MAX_SALT_LENGTH, MAX_SALT_LENGTH + 1 }),
    Field("kdf_algorithm", 6, 1, { 0, KDF_ARGON2ID, 2 }),
    Field("memory_cost_kib", 7, 4,
          { MIN_MEMORY_COST - 1, MIN_MEMORY_COST, MAX_MEMORY_COST, MAX_MEMORY_COST + 1 }),
    Field("time_cost", 11, 4,
          { MIN_TIME_COST - 1, MIN_TIME_COST, MAX_TIME_COST, MAX_TIME_COST + 1 }),
    Field("parallelism", 15, 4,
          { MIN_PARALLELISM - 1, MIN_PARALLELISM, MAX_PARALLELISM, MAX_PARALLELISM + 1 }),
    Field("key_length", 19, 4, { MIN_KEY_LENGTH - 1, KEY_LENGTH, MAX_KEY_LENGTH + 1 }),
    Field("chunk_size", chunkAt, 4, { 0, 1, MAX_CHUNK_SIZE, MAX_CHUNK_SIZE + 1 }),
    Field("total_chunks", chunkAt + 4, 8, { 0, 1, 2, MAX_CHUNKS, MAX_CHUNKS + 1 }) }
  \cup (IF has_comp
          THEN { Field("compression_algorithm", compAt, 1,
                       { COMPRESSION_NONE, COMPRESSION_ZSTD, 2 }),
                 Field("original_size", compAt + 2, 8, { 0, 1, MaxLen + 1 }) }
          ELSE { })
  \cup (IF has_flags
          THEN { Field("flags", flagsAt, 1, { 0, FLAG_KEY_FILE_USED, 2, 3 }) }
          ELSE { })

\* the bytes c with the width bytes from position at on replaced by value v,
\* little-endian
WithField(c, at, width, v) ==
  SubSeq(c, 1, at - 1)
    \o (IF width = 1 THEN << v >> ELSE IF width = 4 THEN U32LE(v) ELSE U64LE(v))
    \o SubSeq(c, at + width, Len(c))

\* one field of the container's header is overwritten
CraftHeader ==
  /\ Untouched
  /\ \E f \in HeaderFields(enc.version) : \E v \in f.values :
       /\ fs' = [fs EXCEPT ![EncPath] = File(WithField(fs[EncPath].data, f.at, f.width, v))]
       /\ tamper' = [kind |-> f.name, at |-> f.at, bit |-> v]
  /\ UNCHANGED << sealed, enc, dec, rest >>

\* decryption of what lies at the container's path with any password and key
\* file
DecStartAny ==
  /\ enc.pc = "done"
  /\ DecStartWith(Passwords, KeyFileArgs, { FALSE })

\* a valid container is written, one field of its header overwritten (or
\* none), and the result decrypted with any password and key file; no file
\* operation fails in the environment
NextHeader ==
  \/ EncStartValid
  \/ EncChunkWith({ TRUE })
  \/ EncFinishWith({ "ok" })
  \/ CraftHeader
  \/ DecStartAny
  \/ DecDeriveKeyWith({ TRUE })
  \/ DecChunkWith({ TRUE })
  \/ DecFinishWith({ "ok" })

SpecHeader == InitWith({ FALSE }) /\ [][NextHeader]_vars

(* ------------------ concurrent operations, one directory -------------- *)
\* the operations that run at the same time
Procs == { 1, 2 }

\* the output paths they may be given, in one directory
OutPaths == { EncPath, DecPath }

ConcIdle ==
  [ pc |-> "idle", out |-> EncPath, allow_overwrite |-> FALSE, tmp |-> NoKeyFile,
    written |-> 0, err |-> NoErr ]

\* the bytes operation p writes, in order: its complete output
ConcOutput(p) == [i \in 1..MaxWrites |-> 10 * p + i]

InitConc ==
  /\ \E oldEnc \in BOOLEAN, oldDec \in BOOLEAN :
       fs = [ q \in Paths |->
                IF q = EncPath /\ oldEnc THEN File(OldData)
                ELSE IF q = DecPath /\ oldDec THEN File(OldData)
                ELSE NoFile ]
  /\ conc = [p \in Procs |-> ConcIdle]
  /\ sealed = {} /\ enc = EncIdle /\ dec = DecIdle /\ tamper = NoTamper
  /\ res = NotRunning /\ arch = NotRunning /\ batch = NotRunning /\ plan = NotRunning /\ race = NotRunning /\ prior = NotRunning

\* what the concurrent operations leave alone
ConcFrame == UNCHANGED << sealed, enc, dec, tamper, res, arch, batch, plan, race, prior >>

\* create_secure_tempfile in the output directory (lines 194-199, 558-563)
ConcStart(p) ==
  /\ conc[p].pc = "idle"
  /\ \E out \in OutPaths, ao \in BOOLEAN :
       LET tmp == FreshTemp(fs) IN
       /\ conc' = [conc EXCEPT ![p] = [@ EXCEPT !.pc = "writing", !.out = out,
                                                !.allow_overwrite = ao, !.tmp = tmp]]
       /\ fs' = [fs EXCEPT ![tmp] = File(<< >>)]
  /\ ConcFrame

\* one write_all to the temp file (header, then frames)
ConcWrite(p) ==
  /\ conc[p].pc = "writing" /\ conc[p].written < MaxWrites
  /\ fs' = [fs EXCEPT ![conc[p].tmp] =
              File(fs[conc[p].tmp].data \o << ConcOutput(p)[conc[p].written + 1] >>)]
  /\ conc' = [conc EXCEPT ![p].written = @ + 1]
  /\ ConcFrame

\* writer.flush(), then the test `allow_overwrite && output_path.exists()`
ConcFlush(p) ==
  /\ conc[p].pc = "writing" /\ conc[p].written = MaxWrites
  /\ conc' = [conc EXCEPT ![p].pc =
                IF RemovesOld(conc[p].allow_overwrite, fs, conc[p].out)
                  THEN "removing" ELSE "persisting"]
  /\ fs' = fs
  /\ ConcFrame

\* the temp file of p is dropped and the operation ends with error e
ConcEnd(p, e) ==
  /\ conc' = [conc EXCEPT ![p] = [@ EXCEPT !.pc = "failed", !.err = e, !.tmp = NoKeyFile]]
  /\ fs' = DropTemp(fs, conc[p].tmp)

\* fs::remove_file(output_path): an error when the file is gone by now
ConcRemove(p) ==
  /\ conc[p].pc = "removing"
  /\ IF fs[conc[p].out].exists
       THEN /\ fs' = [fs EXCEPT ![conc[p].out] = NoFile]
            /\ conc' = [conc EXCEPT ![p].pc = "persisting"]
       ELSE ConcEnd(p, "Io")
  /\ ConcFrame

\* temp_file.persist(output_path): one rename, replacing what is there
ConcPersist(p) ==
  /\ conc[p].pc = "persisting"
  /\ fs' = [fs EXCEPT ![conc[p].out] = fs[conc[p].tmp], ![conc[p].tmp] = NoFile]
  /\ conc' = [conc EXCEPT ![p] = [@ EXCEPT !.pc = "done", !.tmp = NoKeyFile]]
  /\ ConcFrame

\* a file operation of p fails in the environment: Err, temp file dropped
ConcFail(p) ==
  /\ conc[p].pc \in { "writing", "removing", "persisting" }
  /\ ConcEnd(p, "Io")
  /\ ConcFrame

\* any interleaving of the steps of the operations, no lock between them
NextConc ==
  \E p \in Procs :
    \/ ConcStart(p)
    \/ ConcWrite(p)
    \/ ConcFlush(p)
    \/ ConcRemove(p)
    \/ ConcPersist(p)
    \/ ConcFail(p)

SpecConc == InitConc /\ [][NextConc]_vars

(* ------------------------- resolve_output_path ------------------------- *)
\* commands/file_utils.rs
MAX_COLLISION_ATTEMPTS == 1000

\* A file name: the stem as the sequence of its parts (a base word, then the
\* " (n)" suffixes in order, each as its number n) and the extension ("" for
\* none).  Base words are numbered from BaseWord up, above every suffix number.
BaseWord == MAX_COLLISION_ATTEMPTS + 1001

FileName(stem, ext) == [stem |-> stem, ext |-> ext]

\* a candidate name that loses the extension
build_collision_path_no_ext(path, index) == FileName(Append(path.stem, index), "")

\* build_collision_path: "<stem> (index).<ext>", or "<stem> (index)"
build_collision_path(path, index) == FileName(Append(path.stem, index), path.ext)

ResolveResult(e, path) == [err |-> e, path |-> path]

\* a resolution that never renames
resolve_output_path_as_given(dir, path, allow_overwrite) == ResolveResult(NoErr, path)

\* resolve_output_path over the names dir that exist in the directory
resolve_output_path(dir, path, allow_overwrite) ==
  IF allow_overwrite \/ path \notin dir THEN ResolveResult(NoErr, path)
  ELSE LET free == { index \in 1..MAX_COLLISION_ATTEMPTS :
                       build_collision_path(path, index) \notin dir }
       IN IF free = { } THEN ResolveResult("InvalidPath", path)
          ELSE ResolveResult(NoErr,
                 build_collision_path(path, CHOOSE i \in free : \A j \in free : i <= j))

\* the output paths asked for: with and without extension, and one that is
\* itself the first candidate of another
Targets ==
  { FileName(<< BaseWord >>, "txt"), FileName(<< BaseWord >>, ""),
    FileName(<< BaseWord, 1 >>, "txt") }

\* a directory where the candidates 1..k of path exist, but for candidate gap
Filled(path, k, gap) ==
  { build_collision_path(path, i) : i \in (1..k) \ { gap } }

\* position, directory, the call's arguments and result, calls made
InitRes ==
  /\ \E k \in (0..MaxFill) \cup { MAX_COLLISION_ATTEMPTS - 1, MAX_COLLISION_ATTEMPTS },
        gap \in 0..MaxFill, present \in BOOLEAN :
       res = [ pc |-> "idle",
               dir |-> Filled(FileName(<< BaseWord >>, "txt"), k, gap)
                         \cup (IF present THEN { FileName(<< BaseWord >>, "txt") } ELSE { }),
               path |-> FileName(<< BaseWord >>, "txt"), allow_overwrite |-> FALSE,
               result |-> FileName(<< BaseWord >>, "txt"), err |-> NoErr,
               before |-> { }, calls |-> 0 ]
  /\ fs = [q \in Paths |-> NoFile]
  /\ sealed = {} /\ enc = EncIdle /\ dec = DecIdle /\ tamper = NoTamper
  /\ conc = NotRunning /\ arch = NotRunning /\ batch = NotRunning /\ plan = NotRunning /\ race = NotRunning /\ prior = NotRunning

ResFrame == UNCHANGED << fs, sealed, enc, dec, tamper, conc, arch, batch, plan, race, prior >>

\* a command resolves its output path (commands/streaming.rs:53)
ResResolve ==
  /\ res.pc \in { "idle", "written" } /\ res.calls < MaxCalls
  /\ \E path \in Targets, ao \in BOOLEAN :
       LET r == resolve_output_path(res.dir, path, ao) IN
       res' = [res EXCEPT !.pc = IF r.err = NoErr THEN "resolved" ELSE "failed",
                          !.path = path, !.allow_overwrite = ao, !.result = r.path,
                          !.err = r.err, !.before = res.dir, !.calls = res.calls + 1]
  /\ ResFrame

\* the command's output is written at the resolved path
ResMaterialise ==
  /\ res.pc = "resolved"
  /\ res' = [res EXCEPT !.pc = "written", !.dir = res.dir \cup { res.result }]
  /\ ResFrame

NextRes == ResResolve \/ ResMaterialise

SpecRes == InitRes /\ [][NextRes]_vars

(* ------------------------------- archives ------------------------------ *)
\* commands/archive.rs; sizes are counted in MiB
MAX_DECOMPRESSION_RATIO == 100
MAX_EXTRACTED_SIZE_BYTES == 10 * 1024

\* A path: the components of its directory, then its file name.
RootDir == "/"
ParentDir == ".."
ArchPath(dir, name) == [dir |-> dir, name |-> name]

is_absolute(path) == Len(path.dir) > 0 /\ path.dir[1] = RootDir

\* Path::starts_with over directory components
starts_with(dir, base) ==
  Len(base) <= Len(dir) /\ SubSeq(dir, 1, Len(base)) = base

OutputDir == << RootDir, "out" >>
Cwd == << RootDir, "w" >>

NameF == FileName(<< BaseWord + 1 >>, "txt")
NameG == FileName(<< BaseWord + 2 >>, "txt")
NameMissing == FileName(<< BaseWord + 3 >>, "txt")

EntryTypes ==
  { "Regular", "Continuous", "Symlink", "Directory", "Link", "Fifo", "Char" }

\* a tar entry: name, type, declared size, content
Entry(path, type, size, data) ==
  [path |-> path, type |-> type, size |-> size, data |-> data]

\* validate_archive_entry without the symlink check
validate_archive_entry_paths_only(entry) ==
  IF is_absolute(entry.path) THEN "PathTraversal"
  ELSE IF \E k \in DOMAIN entry.path.dir : entry.path.dir[k] = ParentDir
       THEN "PathTraversal"
  ELSE NoErr

\* validate_archive_entry with the checks in the other order
validate_archive_entry_type_first(entry) ==
  IF entry.type = "Symlink" THEN "ArchiveError"
  ELSE validate_archive_entry_paths_only(entry)

\* validate_archive_entry without the ParentDir check
validate_archive_entry_no_parent_dir(entry) ==
  IF is_absolute(entry.path) THEN "PathTraversal"
  ELSE IF entry.type = "Symlink" THEN "ArchiveError"
  ELSE NoErr

validate_archive_entry(entry) ==
  IF is_absolute(entry.path) THEN "PathTraversal"
  ELSE IF \E k \in DOMAIN entry.path.dir : entry.path.dir[k] = ParentDir
       THEN "PathTraversal"
  ELSE IF entry.type = "Symlink" THEN "ArchiveError"
  ELSE NoErr

\* a size check that rejects a total equal to the limit
OverLimitInclusive(total_size, max_extracted_size) == total_size >= max_extracted_size

\* extract_tar_zstd_archive: total_size > max_extracted_size
OverLimit(total_size, max_extracted_size) == total_size > max_extracted_size

\* extract_tar_zstd_archive: the effective limit
MaxExtractedSize(archive_size) ==
  Min(archive_size * MAX_DECOMPRESSION_RATIO, MAX_EXTRACTED_SIZE_BYTES)

\* an entry filter that lets hard links through
ExtractedTypeWithLinks(type) == type \in { "Regular", "Continuous", "Link" }

\* extract_tar_zstd_archive: the entry types the second pass writes
ExtractedType(type) == type \in { "Regular", "Continuous" }

\* normalize_path over the directory components (PathBuf::pop leaves the
\* root and the empty path alone)
RECURSIVE normalize_path(_)
normalize_path(dir) ==
  IF dir = << >> THEN << >>
  ELSE LET init == normalize_path(SubSeq(dir, 1, Len(dir) - 1))
           c == dir[Len(dir)]
       IN IF c = ParentDir
          THEN IF init = << >> \/ init = << RootDir >> THEN init
               ELSE SubSeq(init, 1, Len(init) - 1)
          ELSE IF c = "." THEN init
          ELSE Append(init, c)

\* compute_safe_output_path
compute_safe_output_path(entry_path, output_dir) ==
  LET target == IF is_absolute(entry_path) THEN entry_path.dir
                ELSE output_dir \o entry_path.dir
      normalized == ArchPath(normalize_path(target), entry_path.name)
  IN IF ~starts_with(normalized.dir, output_dir)
     THEN [err |-> "PathTraversal", path |-> normalized]
     ELSE [err |-> NoErr, path |-> normalized]

\* files on disk, as a set of [path, data]
Exists(files, path) == \E f \in files : f.path = path
NamesIn(files, dir) == { f.path.name : f \in { g \in files : g.path.dir = dir } }
WriteFile(files, path, data) ==
  { f \in files : f.path # path } \cup { [path |-> path, data |-> data] }

\* ---- create_tar_zstd_archive
\* the regular files the inputs name
DiskFiles ==
  { [path |-> ArchPath(Cwd \o << "x" >>, NameF), data |-> << 1 >>],
    [path |-> ArchPath(Cwd \o << "y" >>, NameF), data |-> << 2 >>],
    [path |-> ArchPath(Cwd \o << "x" >>, NameG), data |-> << 3, 3 >>] }

DataAt(path) == (CHOOSE f \in DiskFiles : f.path = path).data

\* fs::canonicalize of a path without symlinks
canonicalize(path) ==
  IF is_absolute(path) THEN path ELSE ArchPath(Cwd \o path.dir, path.name)

\* the same file given relative to the working directory
RelativeTo(path) == ArchPath(SubSeq(path.dir, Len(Cwd) + 1, Len(path.dir)), path.name)

GivenPaths ==
  { f.path : f \in DiskFiles } \cup { RelativeTo(f.path) : f \in DiskFiles }
    \cup { ArchPath(Cwd \o << "x" >>, NameMissing) }

\* input lists: distinct files
InputLists ==
  { l \in UNION { [1..n -> GivenPaths] : n \in 1..MaxEntries } :
      \A i, j \in DOMAIN l : i # j => canonicalize(l[i]) # canonicalize(l[j]) }

\* validate_archive_input
validate_archive_input(path) ==
  IF ~Exists(DiskFiles, canonicalize(path)) THEN "Io" ELSE NoErr

\* compute_common_prefix
compute_common_prefix(paths) ==
  IF Len(paths) = 0 THEN << >>
  ELSE IF Len(paths) = 1 THEN paths[1].dir
  ELSE LET first == paths[1].dir
           matching == { k \in 0..Len(first) :
                           \A j \in DOMAIN paths :
                             /\ Len(paths[j].dir) >= k
                             /\ SubSeq(paths[j].dir, 1, k) = SubSeq(first, 1, k) }
       IN SubSeq(first, 1, CHOOSE k \in matching : \A m \in matching : m <= k)

\* compute_archive_entry_name
compute_archive_entry_name(file_path, common_prefix) ==
  LET relative == ArchPath(SubSeq(file_path.dir, Len(common_prefix) + 1,
                                  Len(file_path.dir)), file_path.name)
  IN IF starts_with(file_path.dir, common_prefix) /\ ~is_absolute(relative)
     THEN relative
     ELSE ArchPath(<< >>, file_path.name)

\* ---- crafted archives
TenGiB == 10 * 1024
EntrySizes == { 0, MAX_DECOMPRESSION_RATIO, MAX_DECOMPRESSION_RATIO + 1, TenGiB, TenGiB + 1 }
ArchiveSizes == { 1, 2, 2 * MAX_DECOMPRESSION_RATIO }

CraftedEntries ==
  { Entry(ArchPath(<< >>, NameF), "Regular", n, << 7 >>) : n \in EntrySizes }
    \cup { Entry(ArchPath(<< "d" >>, NameG), "Regular", n, << 8 >>) :
             n \in { 0, MAX_DECOMPRESSION_RATIO } }
    \cup { Entry(ArchPath(<< >>, NameF), "Continuous", 0, << 6 >>) }
    \cup { Entry(ArchPath(<< >>, NameG), "Symlink", n, << >>) :
             n \in { 0, MAX_DECOMPRESSION_RATIO + 1 } }
    \cup { Entry(ArchPath(<< >>, NameG), "Link", n, << 5 >>) :
             n \in { 0, MAX_DECOMPRESSION_RATIO + 1 } }
    \cup { Entry(ArchPath(<< >>, NameG), t, 0, << >>) :
             t \in { "Directory", "Fifo", "Char" } }
    \cup { Entry(ArchPath(<< RootDir, "etc" >>, NameF), "Regular", 0, << 4 >>),
           Entry(ArchPath(<< ParentDir >>, NameF), "Regular", 0, << 4 >>),
           Entry(ArchPath(<< ParentDir >>, NameF), "Symlink", 0, << >>),
           Entry(ArchPath(<< "d", ParentDir, ParentDir >>, NameF), "Regular",
                 MAX_DECOMPRESSION_RATIO + 1, << 4 >>) }

CraftedArchives == UNION { [1..n -> CraftedEntries] : n \in 0..MaxEntries }

\* what the output directory may hold before extraction
OldOutputs ==
  { { }, { [path |-> ArchPath(OutputDir, NameF), data |-> OldData] } }

ArchIdle ==
  [ pc |-> "idle", origin |-> "none", inputs |-> << >>, entries |-> << >>,
    archive_size |-> 0, allow_overwrite |-> FALSE, out |-> { }, before |-> { },
    index |-> 0, total_size |-> 0, total_files |-> 0, extracted |-> << >>,
    err |-> NoErr ]

InitArch ==
  /\ arch = ArchIdle
  /\ fs = [q \in Paths |-> NoFile]
  /\ sealed = {} /\ enc = EncIdle /\ dec = DecIdle /\ tamper = NoTamper
  /\ conc = NotRunning /\ res = NotRunning /\ batch = NotRunning /\ plan = NotRunning /\ race = NotRunning /\ prior = NotRunning

ArchFrame == UNCHANGED << fs, sealed, enc, dec, tamper, conc, res, batch, plan, race, prior >>

ArchFail(e) == [arch EXCEPT !.pc = "failed", !.err = e]

\* create_tar_zstd_archive over a non-empty input list
ArchCreate ==
  /\ arch.pc = "idle"
  /\ \E inputs \in InputLists :
       LET common_prefix == compute_common_prefix(inputs)
           bad == { i \in DOMAIN inputs : validate_archive_input(inputs[i]) # NoErr }
       IN arch' =
            IF bad # { }
            THEN [arch EXCEPT !.pc = "failed", !.origin = "created",
                              !.inputs = inputs, !.err = "Io"]
            ELSE [arch EXCEPT
                    !.pc = "archived", !.origin = "created", !.inputs = inputs,
                    !.entries =
                      [i \in DOMAIN inputs |->
                         Entry(compute_archive_entry_name(canonicalize(inputs[i]),
                                                          common_prefix),
                               "Regular", Len(DataAt(canonicalize(inputs[i]))),
                               DataAt(canonicalize(inputs[i])))]]
  /\ ArchFrame

\* an archive that did not come from create_tar_zstd_archive
ArchCraft ==
  /\ arch.pc = "idle"
  /\ \E entries \in CraftedArchives :
       arch' = [arch EXCEPT !.pc = "archived", !.origin = "crafted", !.entries = entries]
  /\ ArchFrame

\* extract_tar_zstd_archive up to the first pass
ArchExtractStart ==
  /\ arch.pc = "archived"
  /\ \E archive_size \in ArchiveSizes, ao \in BOOLEAN, old \in OldOutputs :
       arch' = [arch EXCEPT !.pc = "validate", !.archive_size = archive_size,
                            !.allow_overwrite = ao, !.out = old, !.before = old,
                            !.index = 1]
  /\ ArchFrame

\* first pass, one entry; after the last entry the second pass begins
ArchValidate ==
  /\ arch.pc = "validate"
  /\ arch' =
       IF arch.index > Len(arch.entries)
       THEN [arch EXCEPT !.pc = "extract", !.index = 1]
       ELSE LET entry == arch.entries[arch.index]
                e == validate_archive_entry(entry)
                total_size == arch.total_size + entry.size
            IN IF e # NoErr THEN ArchFail(e)
               ELSE IF OverLimit(total_size, MaxExtractedSize(arch.archive_size))
                    THEN [ArchFail("ArchiveError") EXCEPT
                            !.total_size = total_size,
                            !.total_files = arch.total_files + 1]
               ELSE [arch EXCEPT !.total_size = total_size,
                                 !.total_files = arch.total_files + 1,
                                 !.index = arch.index + 1]
  /\ ArchFrame

\* second pass, one entry; after the last entry the call returns
ArchExtract ==
  /\ arch.pc = "extract"
  /\ arch' =
       IF arch.index > Len(arch.entries) THEN [arch EXCEPT !.pc = "done"]
       ELSE LET entry == arch.entries[arch.index]
                safe == compute_safe_output_path(entry.path, OutputDir)
                r == resolve_output_path(NamesIn(arch.out, safe.path.dir),
                                         safe.path.name, FALSE)
                resolved_path == ArchPath(safe.path.dir, r.path)
            IN IF ~ExtractedType(entry.type)
               THEN [arch EXCEPT !.index = arch.index + 1]
               ELSE IF safe.err # NoErr THEN ArchFail(safe.err)
               ELSE IF Exists(arch.out, safe.path) /\ ~arch.allow_overwrite
               THEN IF r.err # NoErr THEN ArchFail(r.err)
                    ELSE [arch EXCEPT
                            !.out = WriteFile(arch.out, resolved_path, entry.data),
                            !.extracted = Append(arch.extracted, resolved_path),
                            !.index = arch.index + 1]
               ELSE [arch EXCEPT
                       !.out = WriteFile(arch.out, safe.path, entry.data),
                       !.extracted = Append(arch.extracted, safe.path),
                       !.index = arch.index + 1]
  /\ ArchFrame

NextArch == ArchCreate \/ ArchCraft \/ ArchExtractStart \/ ArchValidate \/ ArchExtract

SpecArch == InitArch /\ [][NextArch]_vars

(* -------------------------------- batches ------------------------------- *)
\* commands/file_utils.rs
MAX_BATCH_FILES == 1000

\* A CryptoError: its variant and its message, as a sequence of words.
CryptoError(kind, msg) == [kind |-> kind, msg |-> msg]

\* error.rs, #[error(...)]: the text of each variant before its message
DisplayPrefix(kind) ==
  CASE kind = "FormatError" -> "Invalid file format:"
    [] kind = "Io" -> "File error:"
    [] kind = "InvalidPath" -> "InvalidPath:"
    [] kind = "FileTooLarge" -> "FileTooLarge:"
    [] kind = "TooManyFiles" -> "TooManyFiles:"
    [] kind = "EncryptionFailed" -> "Encryption failed"
    [] OTHER -> kind

\* e.to_string()
to_string(e) == << DisplayPrefix(e.kind) >> \o e.msg

\* encrypt_single_file: .map_err(|e| CryptoError::FormatError(format!("File '{}': {}", input_path, e)))
WrapValidationError(input_path, e) ==
  CryptoError("FormatError", << "File", input_path >> \o to_string(e))

\* what a batch's input paths name
InputKinds == { "regular", "missing", "symlink", "directory" }

\* validate_input_path: NoErr, or the error
validate_input_path(kind) ==
  IF kind = "missing" THEN CryptoError("Io", << "File not found" >>)
  ELSE IF kind = "symlink"
    THEN CryptoError("InvalidPath", << "Symlinks are not allowed for security reasons" >>)
  ELSE IF kind = "directory"
    THEN CryptoError("InvalidPath", << "Input path must be a regular file" >>)
  ELSE CryptoError(NoErr, << >>)

\* validate_batch_count with the limit itself refused
validate_batch_count_inclusive(count) ==
  IF count >= MAX_BATCH_FILES THEN "TooManyFiles" ELSE NoErr

\* validate_batch_count
validate_batch_count(count) ==
  IF count > MAX_BATCH_FILES THEN "TooManyFiles" ELSE NoErr

\* how resolve_output_path and encrypt_file_streaming end for a valid input
EncryptOutcomes ==
  { CryptoError(NoErr, << >>),
    CryptoError("InvalidPath", << "Unable to find available output filename" >>),
    CryptoError("Io", << "write" >>),
    CryptoError("FileTooLarge", << "chunks" >>),
    CryptoError("EncryptionFailed", << >>) }

\* the short lists of every kind, and lists at and just over the limit
BatchInputs ==
  UNION { [1..n -> InputKinds] : n \in 0..MaxFiles }
    \cup { [i \in 1..n |-> "missing"] : n \in { MAX_BATCH_FILES, MAX_BATCH_FILES + 1 } }

\* the loop that stops at the first file that fails
NextIndexStopOnError(index, success, total_files) ==
  IF success THEN index + 1 ELSE total_files + 1

\* for (index, input_path) in input_paths.iter().enumerate(): the next turn
NextIndex(index, success, total_files) == index + 1

\* a BatchProgress event as emit_progress receives it (file_index from 0)
BatchProgress(stage, file_index) == [stage |-> stage, file_index |-> file_index]

\* position, arguments, the FileResult of each file, and for each file the
\* error its failing step raised
BatchIdle ==
  [ pc |-> "idle", inputs |-> << >>, password |-> << >>, index |-> 0,
    dir_exists |-> FALSE, files |-> << >>, raised |-> << >>, trace |-> << >>,
    err |-> NoErr, success_count |-> 0, failed_count |-> 0 ]

InitBatch ==
  /\ batch = BatchIdle
  /\ fs = [q \in Paths |-> NoFile]
  /\ sealed = {} /\ enc = EncIdle /\ dec = DecIdle /\ tamper = NoTamper
  /\ conc = NotRunning /\ res = NotRunning /\ arch = NotRunning /\ plan = NotRunning /\ race = NotRunning /\ prior = NotRunning

BatchFrame == UNCHANGED << fs, sealed, enc, dec, tamper, conc, res, arch, plan, race, prior >>

\* batch_encrypt_impl up to the loop
BatchStart ==
  /\ batch.pc = "idle"
  /\ \E inputs \in BatchInputs, W \in Passwords, dir_exists \in BOOLEAN :
       LET args == [batch EXCEPT !.inputs = inputs, !.password = W,
                                 !.dir_exists = dir_exists] IN
       batch' =
         IF Len(W) = 0 THEN [args EXCEPT !.pc = "failed", !.err = "FormatError"]
         ELSE IF Len(inputs) = 0 THEN [args EXCEPT !.pc = "failed", !.err = "FormatError"]
         ELSE IF validate_batch_count(Len(inputs)) # NoErr
           THEN [args EXCEPT !.pc = "failed", !.err = validate_batch_count(Len(inputs))]
         ELSE IF ~dir_exists THEN [args EXCEPT !.pc = "failed", !.err = "FormatError"]
         ELSE [args EXCEPT !.pc = "loop", !.index = 1]
  /\ BatchFrame

\* one turn of the loop: the progress event, encrypt_single_file and the
\* FileResult pushed; the trace holds the events and the attempts in order
BatchFile ==
  /\ batch.pc = "loop" /\ batch.index <= Len(batch.inputs)
  /\ \E outcome \in EncryptOutcomes :
       LET input_path == batch.inputs[batch.index]
           v == validate_input_path(input_path)
           raised == IF v.kind # NoErr THEN v ELSE outcome
           result == IF v.kind # NoErr THEN WrapValidationError(input_path, v)
                     ELSE outcome
       IN batch' =
            [batch EXCEPT
               !.trace = batch.trace \o
                           << BatchProgress("encrypting", batch.index - 1),
                              [stage |-> "attempt", file_index |-> batch.index - 1] >>,
               !.files = Append(batch.files,
                           [input_path |-> input_path,
                            success |-> result.kind = NoErr,
                            error |-> IF result.kind = NoErr THEN << >>
                                      ELSE to_string(result)]),
               !.raised = Append(batch.raised, raised),
               !.index = NextIndex(batch.index, result.kind = NoErr,
                                   Len(batch.inputs))]
  /\ BatchFrame

\* after the loop: emit_batch_complete, the counts, Ok(BatchResult)
BatchEnd ==
  /\ batch.pc = "loop" /\ batch.index > Len(batch.inputs)
  /\ LET ok == { i \in DOMAIN batch.files : batch.files[i].success } IN
     batch' = [batch EXCEPT !.pc = "done", !.success_count = Cardinality(ok),
                            !.trace = Append(batch.trace,
                                        BatchProgress("complete", Len(batch.inputs))),
                            !.failed_count = Len(batch.files) - Cardinality(ok)]
  /\ BatchFrame

NextBatch == BatchStart \/ BatchFile \/ BatchEnd

SpecBatch == InitBatch /\ [][NextBatch]_vars

(* ---------------------------- chunk layout ---------------------------- *)
\* encrypt_file_streaming by lengths: the sizes it computes and the length of
\* every read and every frame, for files too long to model byte by byte.
MaxPlanSize == 5

MaxPlanChunk == 3

\* the loop is followed for this many chunks of a file
MaxPlanSteps == 6

\* a limit on the chunk count that refuses nothing
TooManyChunksNever(total_chunks) == FALSE

\* if total_chunks_u64 > MAX_CHUNKS
TooManyChunks(total_chunks) == total_chunks > MAX_CHUNKS

\* bytes_to_read of chunk chunk_index
BytesToRead(file_size, chunk_size, chunk_index) ==
  Min(chunk_size, SatSub(file_size, chunk_index * chunk_size))

\* the length of compress(&buffer[..n]) or of the buffer itself
DataToEncryptLen(n, use_compression) ==
  IF use_compression THEN Len(compress_zstd(Repeat(0, n))) ELSE n

\* (file_size, chunk_size argument): short files with small chunks and with the
\* default chunk size, and files at and over the chunk limit
PlanInputs ==
  ((0..MaxPlanSize) \X ((0..MaxPlanChunk) \cup { MAX_CHUNK_SIZE + 1 }))
    \cup { << MAX_CHUNKS, 1 >>, << MAX_CHUNKS + 1, 1 >>,
           << 2 * MAX_CHUNKS + 1, 2 >>, << 2 * MAX_CHUNKS + 2, 2 >> }

NoOutput == << "none" >>

PlanIdle ==
  [ pc |-> "idle", file_size |-> 0, chunk_size_arg |-> 0, chunk_size |-> 0,
    use_compression |-> FALSE, total_chunks |-> 0, chunk_index |-> 0,
    frames |-> << >>, bytes_processed |-> 0, temp |-> FALSE,
    output |-> NoOutput, err |-> NoErr ]

InitChunks ==
  /\ plan = PlanIdle
  /\ fs = [q \in Paths |-> NoFile]
  /\ sealed = {} /\ enc = EncIdle /\ dec = DecIdle /\ tamper = NoTamper
  /\ conc = NotRunning /\ res = NotRunning /\ arch = NotRunning
  /\ batch = NotRunning /\ race = NotRunning /\ prior = NotRunning

PlanFrame == UNCHANGED << fs, sealed, enc, dec, tamper, conc, res, arch, batch, race, prior >>

\* a failure: the temporary file is dropped, nothing is at the output path
PlanFail(p, e) == [p EXCEPT !.pc = "failed", !.err = e, !.temp = FALSE]

\* encrypt_file_streaming up to the header (a non-empty password is given)
PlanStart ==
  /\ plan.pc = "idle"
  /\ \E in \in PlanInputs, use_compression \in BOOLEAN, io \in BOOLEAN :
       LET file_size == in[1]
           chunk_size == IF in[2] = 0 THEN DEFAULT_CHUNK_SIZE ELSE in[2]
           args == [plan EXCEPT !.file_size = file_size, !.chunk_size_arg = in[2],
                                !.chunk_size = chunk_size,
                                !.use_compression = use_compression]
           total_chunks == TotalChunks(file_size, chunk_size)
       IN plan' =
            IF ChunkSizeTooLarge(chunk_size) THEN PlanFail(args, "FormatError")
            ELSE IF io THEN PlanFail(args, "Io")
            ELSE IF TooManyChunks(total_chunks)
              THEN PlanFail([args EXCEPT !.total_chunks = total_chunks], "FormatError")
            ELSE [args EXCEPT !.pc = "chunks", !.temp = TRUE,
                              !.total_chunks = total_chunks]
  /\ PlanFrame

\* one turn of `for chunk_index in 0..total_chunks_u64`
PlanChunk ==
  /\ plan.pc = "chunks" /\ plan.chunk_index < plan.total_chunks
  /\ plan.chunk_index < MaxPlanSteps
  /\ \E io \in BOOLEAN :
       LET bytes_to_read == BytesToRead(plan.file_size, plan.chunk_size, plan.chunk_index)
           ciphertext_len == DataToEncryptLen(bytes_to_read, plan.use_compression) + TAG_SIZE
       IN plan' =
            IF io THEN PlanFail(plan, "Io")
            ELSE IF ciphertext_len >
                      max_ciphertext_len(plan.chunk_size,
                        IF plan.use_compression THEN COMPRESSION_ZSTD ELSE COMPRESSION_NONE)
              THEN PlanFail(plan, "FormatError")
            ELSE [plan EXCEPT
                    !.frames = Append(plan.frames,
                                 [chunk_index |-> plan.chunk_index,
                                  bytes_to_read |-> bytes_to_read,
                                  ciphertext_len |-> ciphertext_len]),
                    !.bytes_processed = plan.bytes_processed + bytes_to_read,
                    !.chunk_index = plan.chunk_index + 1]
  /\ PlanFrame

\* flush and persist
PlanFinish ==
  /\ plan.pc = "chunks" /\ plan.chunk_index = plan.total_chunks
  /\ \E io \in BOOLEAN :
       plan' = IF io THEN PlanFail(plan, "Io")
               ELSE [plan EXCEPT !.pc = "done", !.temp = FALSE, !.output = plan.frames]
  /\ PlanFrame

NextChunks == PlanStart \/ PlanChunk \/ PlanFinish

SpecChunks == InitChunks /\ [][NextChunks]_vars

(* ------------------- commands racing for one path --------------------- *)
\* Two commands (encrypt_file_streamed, encrypt_single_file, ...) run at the
\* same time with allow_overwrite = false and the same requested output path.
\* Each resolves its output path, encrypts into its own temporary file and
\* renames it onto the resolved path; the steps of the two interleave.
RaceTarget == FileName(<< BaseWord >>, "txt")

\* the names in the output directory that matter
RaceNames == { RaceTarget } \cup { build_collision_path(RaceTarget, i) : i \in 1..(MaxFill + 2) }

\* a directory entry: by is the command that wrote it, 0 for a file that was
\* there before
Absent == [exists |-> FALSE, by |-> 0]

WrittenBy(p) == [exists |-> TRUE, by |-> p]

\* the names that exist
Existing(dir) == { n \in RaceNames : dir[n].exists }

RaceIdle == [pc |-> "idle", path |-> RaceTarget, err |-> NoErr]

InitRace ==
  /\ \E present \in BOOLEAN, k \in 0..MaxFill :
       race = [ dir |-> [n \in RaceNames |->
                           IF (n = RaceTarget /\ present)
                              \/ n \in Filled(RaceTarget, k, 0)
                             THEN WrittenBy(0) ELSE Absent],
                proc |-> [p \in Procs |-> RaceIdle] ]
  /\ fs = [q \in Paths |-> NoFile]
  /\ sealed = {} /\ enc = EncIdle /\ dec = DecIdle /\ tamper = NoTamper
  /\ conc = NotRunning /\ res = NotRunning /\ arch = NotRunning
  /\ batch = NotRunning /\ plan = NotRunning /\ prior = NotRunning

RaceFrame == UNCHANGED << fs, sealed, enc, dec, tamper, conc, res, arch, batch, plan, prior >>

\* resolve_output_path(&output_path, allow_overwrite) in command p
RaceResolve(p) ==
  /\ race.proc[p].pc = "idle"
  /\ LET r == resolve_output_path(Existing(race.dir), RaceTarget, FALSE) IN
     race' = [race EXCEPT !.proc[p] =
                [pc |-> IF r.err = NoErr THEN "resolved" ELSE "failed",
                 path |-> r.path, err |-> r.err]]
  /\ RaceFrame

\* encrypt_file_streaming in command p up to the flush: the container is in
\* p's own temporary file, or the call failed and the file is gone
RaceEncrypt(p) ==
  /\ race.proc[p].pc = "resolved"
  /\ \E io \in BOOLEAN :
       race' = [race EXCEPT !.proc[p] =
                  IF io THEN [@ EXCEPT !.pc = "failed", !.err = "Io"]
                  ELSE [@ EXCEPT !.pc = "flushed"]]
  /\ RaceFrame

\* the end of encrypt_file_streaming in command p: allow_overwrite is false,
\* so nothing is removed, and temp_file.persist(output_path) renames the
\* temporary file onto the resolved path, replacing what is there
RacePersist(p) ==
  /\ race.proc[p].pc = "flushed"
  /\ \E io \in BOOLEAN :
       race' = IF io THEN [race EXCEPT !.proc[p] = [@ EXCEPT !.pc = "failed", !.err = "Io"]]
               ELSE [race EXCEPT !.proc[p] = [@ EXCEPT !.pc = "done"],
                                 !.dir[race.proc[p].path] = WrittenBy(p)]
  /\ RaceFrame

NextRace == \E p \in Procs : RaceResolve(p) \/ RaceEncrypt(p) \/ RacePersist(p)

SpecRace == InitRace /\ [][NextRace]_vars

(* --------------------------- trailing bytes --------------------------- *)
MaxTail == 4

\* what may follow the last frame: up to MaxTail bytes (four zero bytes read
\* as the length prefix of an empty frame), or a copy of the last frame
Tails(c, header_len, total_chunks) ==
  UNION { [1..n -> { 0, 1 }] : n \in 1..MaxTail }
    \cup { FramesOf(c, header_len + 1, total_chunks)[total_chunks] }

\* bytes are appended to the container
AppendBytes ==
  /\ Untouched
  /\ \E tail \in Tails(fs[EncPath].data, Len(enc.header), enc.total_chunks) :
       /\ fs' = [fs EXCEPT ![EncPath] = File(fs[EncPath].data \o tail)]
       /\ tamper' = [kind |-> "append", at |-> Len(tail), bit |-> tail[1]]
  /\ UNCHANGED << sealed, enc, dec, rest >>

\* a valid container is written, bytes are appended to it (or not), and it is
\* decrypted with the right password and key file; no file operation fails
NextAppend ==
  \/ EncStartValid
  \/ EncChunkWith({ TRUE })
  \/ EncFinishWith({ "ok" })
  \/ AppendBytes
  \/ DecStartCorrect
  \/ DecDeriveKeyWith({ TRUE })
  \/ DecChunkWith({ TRUE })
  \/ DecFinishWith({ "ok" })

SpecAppend == InitWith({ FALSE }) /\ [][NextAppend]_vars

(* ------------------------- crafted containers ------------------------- *)
\* A container assembled by hand by someone who holds the password, as the
\* tests do: any header fields, and each frame the seal, over that header, of a
\* payload of any length.
MaxCraftFrames == 2

MaxCraftLen == 2

\* the payload of a frame: n bytes of plaintext, compressed for V5/V7
CraftPayload(n, has_comp, config) ==
  IF has_comp THEN compress(Repeat(7, n), config) ELSE Repeat(7, n)

\* the container of header h whose frame i seals payload i under key
CraftedFile(h, key, payloads) ==
  LET header == build_header(h)
      ct(i) == AeadEncrypt(key, derive_chunk_nonce(h.base_nonce, i - 1), header, payloads[i])
      frames == [i \in DOMAIN payloads |-> Frame(ct(i))]
  IN header \o JoinFrames(frames, [i \in DOMAIN payloads |-> i], 1)

\* lens[1] + ... + lens[k]
RECURSIVE SumTo(_, _)
SumTo(lens, k) == IF k = 0 THEN 0 ELSE lens[k] + SumTo(lens, k - 1)

\* the original_size fields tried: none, the sum of the plaintext lengths, one
\* less, one more, and one more than total_chunks * chunk_size
CraftSizes(lens, product) ==
  LET sum == SumTo(lens, Len(lens)) IN
  { 0, SatSub(sum, 1), sum, sum + 1, product + 1 }

CraftContainer ==
  /\ enc.pc = "idle" /\ dec.pc = "idle" /\ tamper = NoTamper
  /\ \E version \in STREAMING_VERSION_V4..STREAMING_VERSION_V7,
        chunk_size \in 1..MaxCraftLen,
        total_chunks \in 0..MaxCraftFrames,
        config \in { CompressionNone, CompressionZstd },
        flags \in { 0, FLAG_KEY_FILE_USED } :
     \E lens \in [1..total_chunks -> 0..(MaxCraftLen + 1)] :
     \E original_size \in CraftSizes(lens, total_chunks * chunk_size) :
       LET has_comp == version \in { STREAMING_VERSION_V5, STREAMING_VERSION_V7 }
           has_flags == version \in { STREAMING_VERSION_V6, STREAMING_VERSION_V7 }
           h == [ version |-> version, kdf_params |-> DefaultKdfParams,
                  salt |-> SaltOf(1), base_nonce |-> BaseNonceOf(1),
                  chunk_size |-> chunk_size, total_chunks |-> total_chunks,
                  has_comp |-> has_comp, compression |-> config,
                  original_size |-> original_size, has_flags |-> has_flags,
                  flags |-> flags ]
           key == KeyFor(fs, << 1 >>,
                         IF has_flags /\ KeyFileFlagSet(flags) THEN "k1" ELSE NoKeyFile,
                         h.salt, h.kdf_params).key
           payloads == [i \in 1..total_chunks |-> CraftPayload(lens[i], has_comp, config)]
       IN
       /\ has_comp \/ (original_size = 0 /\ config = CompressionNone)
       /\ has_flags \/ flags = 0
       /\ fs' = [fs EXCEPT ![EncPath] = File(CraftedFile(h, key, payloads))]
       /\ sealed' = { Sealed(key, derive_chunk_nonce(h.base_nonce, i - 1),
                             build_header(h), payloads[i]) : i \in 1..total_chunks }
       /\ tamper' = [kind |-> "crafted", at |-> total_chunks, bit |-> 0,
                     header |-> h, lens |-> lens]
  /\ UNCHANGED << enc, dec, rest >>

\* decryption of the crafted container with its password, with or without a
\* key file
DecStartCrafted ==
  /\ tamper.kind = "crafted"
  /\ DecStartWith({ << 1 >> }, { NoKeyFile, "k1" }, { FALSE })

NextCraft ==
  \/ CraftContainer
  \/ DecStartCrafted
  \/ DecDeriveKeyWith({ TRUE })
  \/ DecChunkWith({ TRUE })
  \/ DecFinishWith({ "ok" })

InitCraft == InitWith({ FALSE }) /\ fs[InPath].data = << >>

SpecCraft == InitCraft /\ [][NextCraft]_vars

(* ------------------------ superfluous key files ----------------------- *)
\* A crafted container is decrypted with a key file, the output directory is
\* emptied, and the same container is decrypted again without one.

\* the first decryption: with the key file the keyed containers were sealed
\* with, or with an empty one; the second: without a key file
DecStartKeyFile ==
  /\ tamper.kind = "crafted"
  /\ IF prior = NotRunning
       THEN DecStartWith({ << 1 >> }, { "k0", "k1" }, { FALSE })
       ELSE DecStartWith({ << 1 >> }, { NoKeyFile }, { FALSE })

\* the first decryption returned: its outcome is kept, its output is moved
\* away and the call can be made again
DecAgain ==
  /\ dec.pc \in { "done", "failed" } /\ prior = NotRunning
  /\ prior' = [ key_file |-> dec.key_file, pc |-> dec.pc, err |-> dec.err,
                key |-> dec.key, output |-> fs[DecPath],
                plaintext_written |-> dec.plaintext_written ]
  /\ dec' = DecIdle
  /\ fs' = [fs EXCEPT ![DecPath] = NoFile]
  /\ UNCHANGED << sealed, enc, tamper, conc, res, arch, batch, plan, race >>

NextKeyFile ==
  \/ CraftContainer
  \/ DecStartKeyFile
  \/ DecDeriveKeyWith({ TRUE })
  \/ DecChunkWith({ TRUE })
  \/ DecFinishWith({ "ok" })
  \/ DecAgain

SpecKeyFile == InitCraft /\ [][NextKeyFile]_vars

(* ------------------------------ properties ----------------------------- *)
EncOver == enc.pc \in { "done", "failed" }

DecOver == dec.pc \in { "done", "failed" }

\* the decryption was called with the password and key file of the encryption
SameCredentials == dec.password = enc.password /\ dec.key_file = enc.key_file

\* C1: round trip.  Whatever the plaintext, non-empty password, chunk size,
\* compression and key file of a successful encryption, the decryption of its
\* container with the same password and key file, when no file operation
\* fails in the environment, succeeds and writes exactly the plaintext.
C1_RoundTrip ==
  (enc.pc = "done" /\ DecOver /\ SameCredentials /\ ~dec.fault)
    => (dec.pc = "done" /\ fs[DecPath] = File(fs[InPath].data))

\* a compressed, key-file-protected plaintext of several chunks came back
C1_Witness ==
  /\ enc.pc = "done" /\ dec.pc = "done" /\ SameCredentials
  /\ enc.compression.algorithm = COMPRESSION_ZSTD /\ enc.key_file = "k1"
  /\ enc.total_chunks >= 2
  /\ fs[DecPath].data = fs[InPath].data

\* C3: wrong password.  Decrypting a container with a non-empty password other
\* than the one it was encrypted under (everything else the same) fails with
\* InvalidPassword, also when the plaintext is empty.
C3_WrongPassword ==
  (enc.pc = "done" /\ DecOver /\ ~dec.fault
     /\ dec.password # enc.password /\ Len(dec.password) > 0
     /\ dec.key_file = enc.key_file)
    => (dec.pc = "failed" /\ dec.err = "InvalidPassword")

\* an empty plaintext's container was refused under the wrong password
C3_Witness ==
  /\ enc.pc = "done" /\ dec.pc = "failed" /\ dec.err = "InvalidPassword"
  /\ dec.password # enc.password /\ Len(dec.password) > 0
  /\ dec.key_file = enc.key_file
  /\ Len(fs[InPath].data) = 0

\* the key files whose content differs from that of the key file at path k
OtherKeyFiles(k) ==
  { q \in KeyPaths : Len(fs[q].data) > 0 /\ fs[q].data # fs[k].data }

\* C4: wrong key file.  Decrypting a container encrypted with key file K with
\* the right password and a key file of different content fails with
\* InvalidPassword.
C4_WrongKeyFile ==
  (enc.pc = "done" /\ DecOver /\ ~dec.fault
     /\ enc.key_file # NoKeyFile /\ dec.key_file \in OtherKeyFiles(enc.key_file)
     /\ dec.password = enc.password)
    => (dec.pc = "failed" /\ dec.err = "InvalidPassword")

\* a container was refused under the right password and another key file
C4_Witness ==
  /\ enc.pc = "done" /\ enc.key_file = "k1"
  /\ dec.pc = "failed" /\ dec.err = "InvalidPassword"
  /\ dec.key_file = "k2" /\ dec.password = enc.password
  /\ dec.tags_ok = 0

\* the decryption of a container that requires a key file was called without
\* one
CalledWithoutKeyFile ==
  /\ enc.pc = "done" /\ enc.key_file # NoKeyFile
  /\ dec.pc # "idle" /\ dec.key_file = NoKeyFile

\* the call stopped with KeyFileRequired, no key derived, no temp file or
\* output file made
StoppedAtKeyFileRequired ==
  /\ dec.pc = "failed" /\ dec.err = "KeyFileRequired"
  /\ dec.kdf_calls = 0 /\ dec.tmp = NoKeyFile
  /\ \A t \in TmpPaths : ~fs[t].exists
  /\ fs[DecPath] = dec.before

\* C5 as stated: a decryption without a key file of a container whose key-file
\* flag is set fails with KeyFileRequired before any key is derived and any
\* temp or output file is created.
C5_Original == CalledWithoutKeyFile => StoppedAtKeyFileRequired

\* C5, amended: the same when the password given is not empty (an empty
\* password is refused first, with FormatError).
C5_KeyFileRequired ==
  (CalledWithoutKeyFile /\ Len(dec.password) > 0) => StoppedAtKeyFileRequired

\* a wrong, non-empty password and no key file: KeyFileRequired all the same
C5_Witness ==
  /\ CalledWithoutKeyFile /\ StoppedAtKeyFileRequired
  /\ Len(dec.password) > 0 /\ dec.password # enc.password

\* C7 as stated: after a failed call no file exists at its output path.
C7_Original ==
  /\ enc.pc = "failed" => ~fs[EncPath].exists
  /\ dec.pc = "failed" => ~fs[DecPath].exists

\* C7, amended: after a failed call its output path holds nothing the call
\* wrote: the path is as it was before the call, or, when allow_overwrite was
\* given, empty.
C7_NoOutputOnFailure ==
  /\ enc.pc = "failed" =>
       \/ fs[EncPath] = enc.before
       \/ enc.allow_overwrite /\ ~fs[EncPath].exists
  /\ dec.pc = "failed" =>
       \/ fs[DecPath] = dec.before
       \/ dec.allow_overwrite /\ ~fs[DecPath].exists

\* a decryption that failed after authenticating a chunk left the old file
C7_Witness ==
  /\ dec.pc = "failed" /\ dec.tags_ok >= 1
  /\ dec.before.exists /\ fs[DecPath] = dec.before
  /\ \A t \in TmpPaths : ~fs[t].exists

\* what a call may have done at its output path by the rename alone
RenameOnly(c, out) ==
  /\ c.ops \in { << >>, << "rename" >> }
  /\ c.pc = "failed" => fs[out] = c.before

\* C8 as stated: the rename is the only operation ever performed on the
\* output path, and a failing operation leaves the path untouched.
C8_Original == RenameOnly(enc, EncPath) /\ RenameOnly(dec, DecPath)

\* a step changes the output path out of call c (c2 after the step) only as
\* the call's last step: the rename of the finished temp file, or, when the
\* rename fails, the removal that allow_overwrite asked for
OutputStep(c, c2, out, working) ==
  /\ fs'[out] # fs[out] =>
       /\ c.pc = working
       /\ \/ c2.pc = "done" /\ fs'[out] = fs[c.tmp]
          \/ /\ c2.pc = "failed" /\ c.allow_overwrite
             /\ fs[out].exists /\ ~fs'[out].exists
  /\ (c2.pc = "failed" /\ ~c2.allow_overwrite) => fs'[out] = c2.before
  /\ "remove" \in { c2.ops[i] : i \in 1..Len(c2.ops) } =>
       c2.allow_overwrite /\ c2.before.exists

\* C8, amended: the output path is changed only by the last step of a call:
\* the removal of an existing file when allow_overwrite is true, then the one
\* rename.  A failing call leaves the path untouched, unless allow_overwrite
\* was true and the rename failed after the removal.
C8_OutputPathSteps ==
  [][OutputStep(enc, enc', EncPath, "chunks") /\ OutputStep(dec, dec', DecPath, "keyed")]_vars

\* an encryption replaced an old file: removal, then rename
C8_Witness ==
  /\ enc.pc = "done" /\ enc.ops = << "remove", "rename" >>
  /\ enc.before.exists /\ fs[EncPath] # enc.before

\* the steps a decryption may take, from one position to the next
DecTransitions ==
  { << "idle", "parsed" >>, << "idle", "failed" >>,
    << "parsed", "keyed" >>, << "parsed", "failed" >>,
    << "keyed", "done" >>, << "keyed", "failed" >> }

\* one step of the decryption keeps the order HeaderParsed, KeyDerived,
\* ChunkDecrypted(0), ..., Finalised
DecOrderStep ==
  /\ dec'.pc # dec.pc => << dec.pc, dec'.pc >> \in DecTransitions
  /\ dec'.kdf_calls # dec.kdf_calls =>
       dec.pc = "parsed" /\ dec.kdf_calls = 0 /\ dec'.kdf_calls = 1
  /\ dec'.pc = "keyed" => dec'.kdf_calls = 1
  /\ dec'.chunk_index # dec.chunk_index =>
       /\ dec.pc = "keyed" /\ dec'.pc = "keyed"
       /\ dec.chunk_index < dec.hdr.total_chunks
       /\ dec'.chunk_index = dec.chunk_index + 1
       /\ dec.tags_ok = dec.chunk_index /\ dec'.tags_ok = dec'.chunk_index
  /\ dec'.pc = "done" =>
       dec.chunk_index = dec.hdr.total_chunks /\ dec.tags_ok = dec.hdr.total_chunks
  /\ (fs'[DecPath] # fs[DecPath] /\ fs'[DecPath].exists) =>
       dec.pc = "keyed" /\ dec'.pc = "done"
  /\ DecOver => (dec' = dec /\ fs' = fs)

\* C9: decryption goes strictly HeaderParsed, KeyDerived, ChunkDecrypted(0),
\* ..., ChunkDecrypted(total_chunks - 1), Finalised: chunk i is handled only
\* after chunks 0..i-1 each passed the tag check, the output path is created
\* only in Finalised after every declared chunk was authenticated, and after a
\* failure no further step is taken.
C9_DecryptOrder == [][DecOrderStep]_vars

\* a decryption of several chunks reached Finalised
C9_Witness ==
  /\ dec.pc = "done" /\ dec.hdr.total_chunks >= 2
  /\ dec.tags_ok = dec.hdr.total_chunks /\ dec.kdf_calls = 1
  /\ fs[DecPath].exists

\* C2, its last clause: the decryption of a container with one bit flipped
\* (right password and key file) never succeeds with a plaintext other than
\* the original.
C2_Original ==
  (tamper.kind = "flip" /\ dec.pc = "done") => fs[DecPath].data = fs[InPath].data

\* C6: for every proper prefix of a valid container, decryption (right
\* password and key file) fails, with an I/O error or FormatError; no prefix
\* decrypts.
C6_Truncated ==
  (tamper.kind = "truncate" /\ dec.pc # "idle") =>
    /\ dec.pc # "done"
    /\ dec.pc = "failed" => dec.err \in { "Io", "FormatError" }

\* a container cut between two frames: the first chunk is authenticated, the
\* second cannot be read
C6_Witness ==
  /\ tamper.kind = "truncate" /\ dec.pc = "failed" /\ dec.err = "Io"
  /\ dec.tags_ok >= 1 /\ tamper.at = dec.pos - 1

\* the plaintext of the chunks before chunk_index, in index order
EmittedInOrder(d) ==
  SubSeq(fs[InPath].data, 1, Min(Len(fs[InPath].data), d.chunk_index * d.hdr.chunk_size))

\* C10: decrypting a container whose frames were reordered (header as it was)
\* fails with InvalidPassword, and the plaintext chunks emitted until then are
\* those of the indices before, in index order.
C10_Reordered ==
  tamper.kind = "reorder" =>
    /\ dec.pc # "done"
    /\ dec.pc = "failed" => dec.err = "InvalidPassword"
    /\ dec.pc = "keyed" => fs[dec.tmp].data = EmittedInOrder(dec)

\* three frames of which the first stayed in place: chunk 0 was emitted, the
\* displaced second frame refused
C10_Witness ==
  /\ tamper.kind = "reorder" /\ tamper.at = 1
  /\ dec.pc = "failed" /\ dec.err = "InvalidPassword"
  /\ dec.tags_ok = 1 /\ dec.chunk_index = 1

\* C11: every successful decryption has verified at least one tag: whatever
\* the header says (a total_chunks of 0 included), decrypt does not succeed
\* and does not create the output file unless a chunk passed the tag check.
C11_Original ==
  /\ dec.pc = "done" => dec.tags_ok >= 1
  /\ fs[DecPath].exists => dec.tags_ok >= 1

\* the operations that hold a temp file
HoldsTemp(p) == conc[p].pc \in { "writing", "removing", "persisting" }

\* C12: under any interleaving of concurrent operations writing into one
\* directory, no two operations share a temp file, and every file at an output
\* path is the complete output of one operation (or the file that was there
\* before), never a partial or mixed file.
C12_Concurrent ==
  /\ \A p, q \in Procs : (p # q /\ HoldsTemp(p) /\ HoldsTemp(q)) => conc[p].tmp # conc[q].tmp
  /\ \A p \in Procs : HoldsTemp(p) =>
       fs[conc[p].tmp] = File(SubSeq(ConcOutput(p), 1, conc[p].written))
  /\ \A o \in OutPaths : fs[o].exists =>
       \/ fs[o].data = OldData
       \/ \E p \in Procs : /\ conc[p].pc = "done" /\ conc[p].out = o
                           /\ fs[o].data = ConcOutput(p)

\* two operations were given the same output path, both finished, the file
\* there is the whole output of the first
C12_Witness ==
  /\ conc[1].pc = "done" /\ conc[2].pc = "done"
  /\ conc[1].out = conc[2].out
  /\ fs[conc[1].out].data = ConcOutput(1)

\* resolve_output_path was called with allow_overwrite = false for a target
\* that existed
Collision == ~res.allow_overwrite /\ res.path \in res.before

\* the candidates n of the target that did not exist at the call
FreeCandidates ==
  { n \in 1..1000 :
      FileName(Append(res.path.stem, n), res.path.ext) \notin res.before }

\* C13: with allow_overwrite = false and an existing target, resolution gives
\* "<stem> (n).<ext>" for the smallest n in 1..=1000 whose path does not
\* exist, the output is materialised there, and resolution fails with
\* InvalidPath when all 1000 candidates exist.
C13_Resolve ==
  (res.pc # "idle" /\ Collision) =>
    /\ res.pc = "failed" <=> FreeCandidates = { }
    /\ res.pc = "failed" => res.err = "InvalidPath" /\ res.dir = res.before
    /\ res.pc \in { "resolved", "written" } =>
         \E n \in FreeCandidates :
           /\ \A j \in FreeCandidates : n <= j
           /\ res.result = FileName(Append(res.path.stem, n), res.path.ext)
    /\ res.pc = "written" => res.dir = res.before \cup { res.result }

\* candidates 1 and 3 existed, 2 did not: the output was written at "(2)"
C13_Witness ==
  /\ res.pc = "written" /\ Collision
  /\ res.result = FileName(<< BaseWord, 2 >>, "txt")
  /\ FileName(<< BaseWord, 3 >>, "txt") \in res.before

\* all 1000 candidates existed: InvalidPath
C13_WitnessExhausted ==
  /\ res.pc = "failed" /\ Collision /\ res.err = "InvalidPath"

\* ---- archive extraction
ExtractionOver == arch.pc \in { "done", "failed" } /\ arch.index >= 1

\* the entry's name is absolute or has a ".." component
TraversalName(entry) ==
  \/ Len(entry.path.dir) > 0 /\ entry.path.dir[1] = "/"
  \/ \E k \in DOMAIN entry.path.dir : entry.path.dir[k] = ".."

TraversalAt == { i \in DOMAIN arch.entries : TraversalName(arch.entries[i]) }
SymlinkAt == { i \in DOMAIN arch.entries : arch.entries[i].type = "Symlink" }

\* the declared sizes of the first k entries, added up
RECURSIVE DeclaredTotal(_)
DeclaredTotal(k) ==
  IF k = 0 THEN 0 ELSE DeclaredTotal(k - 1) + arch.entries[k].size

\* min(archive_size x 100, 10 GiB), in MiB
SizeCap ==
  IF arch.archive_size * 100 < 10240 THEN arch.archive_size * 100 ELSE 10240

\* the entries at which the running declared total is over the cap
OverCapAt == { i \in DOMAIN arch.entries : DeclaredTotal(i) > SizeCap }

Before(i, others) == \E j \in others : j < i
First(indices) == CHOOSE i \in indices : \A j \in indices : i <= j

NothingWritten == arch.out = arch.before /\ arch.extracted = << >>

\* C14 as stated: whatever else the archive holds, the error is PathTraversal
C14_Original ==
  (ExtractionOver /\ TraversalAt # { }) =>
    arch.pc = "failed" /\ arch.err = "PathTraversal" /\ NothingWritten

\* C14: an archive with an entry whose name is absolute or has a ".."
\* component fails in the validation pass before any byte of any entry is
\* written; the error is PathTraversal, unless an entry before the first
\* such entry is a symlink or brings the running declared total over the
\* cap, and then it is ArchiveError.
C14_Traversal ==
  (ExtractionOver /\ TraversalAt # { }) =>
    /\ arch.pc = "failed" /\ NothingWritten
    /\ arch.err =
         IF Before(First(TraversalAt), SymlinkAt \cup OverCapAt)
         THEN "ArchiveError" ELSE "PathTraversal"

\* a regular entry, then a "../" entry: PathTraversal, nothing written
C14_Witness ==
  /\ arch.pc = "failed" /\ arch.err = "PathTraversal" /\ NothingWritten
  /\ Len(arch.entries) = 2 /\ TraversalAt = { 2 }
  /\ arch.entries[1].type = "Regular" /\ arch.before # { }

\* C15 as stated: over the cap means ArchiveError, whatever else is there
C15_Original ==
  (ExtractionOver /\ DeclaredTotal(Len(arch.entries)) > SizeCap) =>
    arch.pc = "failed" /\ arch.err = "ArchiveError" /\ NothingWritten

\* C15: an archive whose declared total is over min(archive_size x 100,
\* 10 GiB) fails in the validation pass, before any entry is written; the
\* error is ArchiveError, unless an entry with an absolute or ".." name comes
\* no later than the entry that brings the running total over the cap and
\* with no symlink before it, and then it is PathTraversal.  A total equal to the cap is accepted: with no
\* symlink and no such name, extraction completes.
C15_SizeCap ==
  /\ (ExtractionOver /\ OverCapAt # { }) =>
       /\ arch.pc = "failed" /\ NothingWritten
       /\ arch.err \in { "ArchiveError", "PathTraversal" }
       /\ arch.err = "PathTraversal" <=>
            \E t \in TraversalAt :
              /\ t <= First(OverCapAt)
              /\ ~Before(t, SymlinkAt)
  /\ OverCapAt # { } <=> DeclaredTotal(Len(arch.entries)) > SizeCap
  /\ (ExtractionOver /\ arch.origin = "crafted"
        /\ DeclaredTotal(Len(arch.entries)) <= SizeCap
        /\ TraversalAt = { } /\ SymlinkAt = { }) => arch.pc = "done"

\* two entries within the cap one by one, over it together
C15_Witness ==
  /\ arch.pc = "failed" /\ arch.err = "ArchiveError" /\ NothingWritten
  /\ Len(arch.entries) = 2 /\ OverCapAt = { 2 }
  /\ TraversalAt = { } /\ SymlinkAt = { }

\* a total equal to the cap was extracted
C15_WitnessEqual ==
  /\ arch.pc = "done" /\ arch.origin = "crafted"
  /\ DeclaredTotal(Len(arch.entries)) = SizeCap /\ arch.extracted # << >>

\* what the second pass wrote
Written == arch.out \ arch.before

\* the entries of a type that is materialised
MaterialisedAt ==
  { i \in DOMAIN arch.entries : arch.entries[i].type \in { "Regular", "Continuous" } }

OnlyRegularWritten ==
  /\ \A f \in Written : \E i \in MaterialisedAt : f.data = arch.entries[i].data
  /\ Len(arch.extracted) <= Cardinality(MaterialisedAt)

SkippedSilently ==
  (ExtractionOver /\ arch.origin = "crafted" /\ SymlinkAt = { }
     /\ TraversalAt = { } /\ OverCapAt = { }) =>
    arch.pc = "done" /\ Len(arch.extracted) = Cardinality(MaterialisedAt)

\* C16 as stated: a symlink entry means ArchiveError
C16_Original ==
  /\ (ExtractionOver /\ SymlinkAt # { }) =>
       arch.pc = "failed" /\ arch.err = "ArchiveError" /\ NothingWritten
  /\ OnlyRegularWritten /\ SkippedSilently

\* C16: an archive with a symlink entry fails in the validation pass before
\* anything is written; the error is ArchiveError, unless an entry with an
\* absolute or ".." name (the symlink itself included) comes no later than
\* the first symlink, and then it is PathTraversal.  Extraction materialises
\* only regular and continuous entries; directories, hard links, devices and
\* FIFOs are skipped without error and without creating anything.
C16_Symlink ==
  /\ (ExtractionOver /\ SymlinkAt # { }) =>
       /\ arch.pc = "failed" /\ NothingWritten
       /\ arch.err \in { "ArchiveError", "PathTraversal" }
       /\ arch.err = "PathTraversal" <=>
            \E t \in TraversalAt :
              /\ t <= First(SymlinkAt)
              /\ ~Before(t, SymlinkAt \cup OverCapAt)
  /\ OnlyRegularWritten /\ SkippedSilently

\* a regular entry, then a symlink: ArchiveError, nothing written
C16_Witness ==
  /\ arch.pc = "failed" /\ arch.err = "ArchiveError" /\ NothingWritten
  /\ Len(arch.entries) = 2 /\ SymlinkAt = { 2 } /\ OverCapAt = { }
  /\ arch.entries[1].type = "Regular"

\* a hard link and a regular entry: one file written
C16_WitnessSkipped ==
  /\ arch.pc = "done" /\ Len(arch.entries) = 2
  /\ arch.entries[1].type = "Link" /\ arch.entries[2].type = "Regular"
  /\ Len(arch.extracted) = 1

\* ---- archive round trip
\* an archive made by create_tar_zstd_archive was extracted into an empty
\* directory
RoundTripOver ==
  arch.origin = "created" /\ ExtractionOver /\ arch.before = { }

\* C17: creating an archive from distinct regular files and extracting it
\* into an empty directory materialises exactly one file per input, each
\* holding that input's bytes, at pairwise distinct paths under the output
\* directory.
C17_Original ==
  RoundTripOver =>
    /\ arch.pc = "done"
    /\ Cardinality(arch.out) = Len(arch.inputs)
    /\ \A i \in DOMAIN arch.inputs :
         \E f \in arch.out :
           /\ f.data = DataAt(canonicalize(arch.inputs[i]))
           /\ starts_with(f.path.dir, << "/", "out" >>)

\* ---- KDF parameters of a crafted header
\* the overwritten header field is a KDF parameter outside its range, or an
\* unknown KDF algorithm
KdfFieldOutOfRange ==
  \/ tamper.kind = "memory_cost_kib" /\ (tamper.bit < 8192 \/ tamper.bit > 262144)
  \/ tamper.kind = "time_cost" /\ (tamper.bit < 1 \/ tamper.bit > 10)
  \/ tamper.kind = "parallelism" /\ (tamper.bit < 1 \/ tamper.bit > 16)
  \/ tamper.kind = "key_length" /\ tamper.bit # 32
  \/ tamper.kind = "salt_length" /\ (tamper.bit < 16 \/ tamper.bit > 64)
  \/ tamper.kind = "kdf_algorithm" /\ tamper.bit # 1

KdfParamsInRange(p) ==
  /\ p.algorithm = 1
  /\ p.memory_cost_kib \in 8192..262144
  /\ p.time_cost \in 1..10
  /\ p.parallelism \in 1..16
  /\ p.key_length = 32
  /\ p.salt_length \in 16..64

\* the KDF ran in decrypt
KdfInvoked == dec.kdf_calls >= 1 \/ dec.key # NoKey

\* C18: a header with a KDF parameter outside its range, or an unknown KDF
\* algorithm, fails parsing with FormatError; the KDF is only ever invoked
\* with parameters that passed validation, and they are the header's values,
\* unclamped.
C18_KdfValidation ==
  /\ (KdfFieldOutOfRange /\ dec.pc # "idle") =>
       /\ dec.pc = "failed" /\ dec.err = "FormatError"
       /\ ~KdfInvoked /\ ~fs[DecPath].exists
  /\ KdfInvoked => KdfParamsInRange(dec.hdr.kdf_params)
  /\ dec.pc \in { "keyed", "done" } =>
       /\ dec.key.params = dec.hdr.kdf_params
       /\ tamper.kind \in { "memory_cost_kib", "time_cost", "parallelism" } =>
            dec.key.params[tamper.kind] = tamper.bit

\* time_cost 11 in the header: decrypt with a password stops with FormatError
C18_Witness ==
  /\ tamper.kind = "time_cost" /\ tamper.bit = 11
  /\ dec.pc = "failed" /\ dec.err = "FormatError" /\ Len(dec.password) > 0

\* time_cost 10 in the header: the key is derived with time_cost 10
C18_WitnessInRange ==
  /\ tamper.kind = "time_cost" /\ tamper.bit = 10
  /\ dec.pc = "keyed" /\ dec.key.params.time_cost = 10

\* ---- order of checks in decrypt
\* the header was parsed and accepted
HeaderAccepted == dec.hdr # ParseFail(NoErr)

\* what the header checks let through
HeaderWellFormed(h) ==
  /\ h.version \in 4..7
  /\ KdfParamsInRange(h.kdf_params)
  /\ Len(h.salt) = h.kdf_params.salt_length
  /\ h.chunk_size \in 1..16777216
  /\ h.total_chunks <= 10000000
  /\ h.has_compression => h.compression.algorithm \in { 0, 1 }

\* C19 as stated: a FormatError means no key was derived and no AEAD call
\* was made
C19_Original ==
  /\ dec.err = "FormatError" => ~KdfInvoked /\ dec.aead_calls = 0
  /\ dec.err = "InvalidPassword" => dec.aead_calls = dec.tags_ok + 1

\* C19: the structural checks of the header run before key derivation and
\* before any AEAD operation: a FormatError of the header leaves no key
\* derived and no AEAD call made, and a key is derived only for a header that
\* passed them.  A FormatError of a chunk frame (frame longer than the chunk
\* size allows, payload that does not decompress to the expected length, total
\* size mismatch) comes after key derivation, and never from a failed AEAD
\* call.  AEAD tag failures are the only source of InvalidPassword.
C19_StructuralFirst ==
  /\ (dec.err = "FormatError" /\ ~HeaderAccepted) => ~KdfInvoked /\ dec.aead_calls = 0
  /\ (KdfInvoked \/ dec.aead_calls > 0) => HeaderAccepted /\ HeaderWellFormed(dec.hdr)
  /\ dec.aead_calls > 0 => KdfInvoked
  /\ dec.err = "FormatError" => dec.aead_calls = dec.tags_ok
  /\ dec.err = "InvalidPassword" <=> dec.aead_calls = dec.tags_ok + 1
  /\ dec.aead_calls \in { dec.tags_ok, dec.tags_ok + 1 }

\* a header whose chunk_size was lowered: FormatError at the first frame,
\* after the key was derived
C19_Witness ==
  /\ tamper.kind = "chunk_size" /\ dec.pc = "failed" /\ dec.err = "FormatError"
  /\ KdfInvoked /\ dec.aead_calls = 0

\* ---- errors of a batch
\* the variant a reported error text names
ReportedKind(text) ==
  CASE text[1] = "Invalid file format:" -> "FormatError"
    [] text[1] = "File error:" -> "Io"
    [] text[1] = "InvalidPath:" -> "InvalidPath"
    [] text[1] = "FileTooLarge:" -> "FileTooLarge"
    [] text[1] = "TooManyFiles:" -> "TooManyFiles"
    [] text[1] = "Encryption failed" -> "EncryptionFailed"
    [] OTHER -> text[1]

\* C20: no error is swallowed or translated to another kind: when a step for
\* a file of a batch fails with kind E, the failure reported for that file
\* carries kind E.
C20_Original ==
  \A i \in DOMAIN batch.files :
    IF batch.raised[i].kind = NoErr THEN batch.files[i].success
    ELSE /\ ~batch.files[i].success
         /\ ReportedKind(batch.files[i].error) = batch.raised[i].kind

\* C21: a batch of more than 1000 inputs with a non-empty password fails with
\* TooManyFiles before any file is processed (no progress event, no attempt,
\* no result, no output); a batch of exactly 1000 inputs passes the count
\* check, and with an existing output directory every one of them is processed.
BatchStarted == batch.pc # "idle" /\ Len(batch.password) > 0

C21_BatchLimit ==
  /\ (BatchStarted /\ Len(batch.inputs) > 1000) =>
       /\ batch.pc = "failed" /\ batch.err = "TooManyFiles"
       /\ batch.files = << >> /\ batch.trace = << >> /\ batch.index = 0
  /\ (BatchStarted /\ Len(batch.inputs) = 1000) =>
       /\ batch.err # "TooManyFiles"
       /\ batch.dir_exists => batch.pc \in { "loop", "done" }
       /\ batch.pc = "done" => Len(batch.files) = 1000

C21_Witness ==
  BatchStarted /\ Len(batch.inputs) = 1001 /\ batch.err = "TooManyFiles"

C21_WitnessAtLimit ==
  BatchStarted /\ Len(batch.inputs) = 1000 /\ batch.pc = "done"

\* C22: a failure on one file does not stop the batch.  At every moment the
\* results are those of the first inputs in input order, the trace is the
\* progress event of file 0, the attempt on file 0, the progress event of file
\* 1, ... each file once; at the end there is one result per input, the two
\* counts add up to the number of inputs, and one completion event comes last.
Attempted == Len(batch.files)

RECURSIVE SumBytes(_)
SumBytes(frames) ==
  IF frames = << >> THEN 0
  ELSE frames[1].bytes_to_read + SumBytes(Tail(frames))

\* the chunk size is in range and the temporary file could be created
PlanAccepted == plan.pc # "idle" /\ plan.chunk_size <= 16777216 /\ plan.total_chunks > 0

\* n chunks do not hold the file: n * chunk_size < file_size, without the
\* product
NeedsMoreThan(n) ==
  plan.file_size > 0 /\ (plan.file_size - 1) \div plan.chunk_size >= n

C24_WitnessEmpty == plan.pc = "done" /\ plan.file_size = 0 /\ Len(plan.frames) = 1

C24_WitnessTooMany ==
  PlanAccepted /\ plan.file_size = 10000001 /\ plan.err = "FormatError"

C24_WitnessAtLimit ==
  plan.pc = "chunks" /\ plan.total_chunks = 10000000 /\ Len(plan.frames) = 2

\* C25, as stated: an empty plaintext encrypted without compression gives a
\* file strictly longer than header + 4 + 16 bytes.
EmptyEncrypted ==
  /\ enc.pc = "done" /\ enc.file_size = 0
  /\ enc.compression.algorithm = COMPRESSION_NONE

C25_Original ==
  EmptyEncrypted => Len(fs[EncPath].data) > Len(enc.header) + 4 + 16

\* C25, amended: the file is exactly header + 4 + 16 bytes long: the header,
\* then one frame of a 4-byte length (16) and the 16-byte tag of no plaintext.
C25_EmptyFileLength ==
  EmptyEncrypted =>
    /\ Len(fs[EncPath].data) = Len(enc.header) + 4 + 16
    /\ Slice(fs[EncPath].data, 1, Len(enc.header)) = enc.header
    /\ Slice(fs[EncPath].data, Len(enc.header) + 1, 4) = << 16, 0, 0, 0 >>

C25_Witness ==
  /\ EmptyEncrypted /\ fs[EncPath].exists
  /\ enc.key_file # NoKeyFile /\ Len(enc.header) = 63

\* C26: the version byte the encryptor writes is 4 with neither compression
\* nor a key file, 5 with compression only, 6 with a key file only, 7 with both;
\* the ten bytes of compression fields follow the chunk fields exactly in V5 and
\* V7, and the flags byte, equal to 1, ends the header exactly in V6 and V7.
HeaderWritten == enc.pc \in { "chunks", "done" }

WithCompression == enc.compression.algorithm # 0

WithKeyFile == enc.key_file # NoKeyFile

C26_VersionByte ==
  HeaderWritten =>
    /\ enc.header[1] = (IF WithCompression THEN 1 ELSE 0) + (IF WithKeyFile THEN 2 ELSE 0) + 4
    /\ Len(enc.header) =
         62 + (IF WithCompression THEN 10 ELSE 0) + (IF WithKeyFile THEN 1 ELSE 0)
    /\ WithCompression =>
         /\ enc.header[63] = enc.compression.algorithm
         /\ enc.header[64] = enc.compression.level
         /\ Slice(enc.header, 65, 8) = U64LE(enc.file_size)
    /\ WithKeyFile => enc.header[Len(enc.header)] = 1
    /\ ParseHeader(enc.header, WithKeyFile).err = NoErr
    /\ ParseHeader(enc.header, WithKeyFile).has_compression = WithCompression
    /\ ParseHeader(enc.header, WithKeyFile).has_flags = WithKeyFile
    /\ enc.pc = "done" => Slice(fs[EncPath].data, 1, Len(enc.header)) = enc.header

C26_Witness ==
  /\ enc.pc = "done" /\ WithCompression /\ WithKeyFile
  /\ fs[EncPath].data[1] = 7 /\ Len(enc.header) = 73

C26_WitnessV5 == enc.pc = "done" /\ fs[EncPath].data[1] = 5 /\ Len(enc.header) = 72

C26_WitnessV6 == enc.pc = "done" /\ fs[EncPath].data[1] = 6 /\ Len(enc.header) = 63

C26_WitnessV4 == enc.pc = "done" /\ fs[EncPath].data[1] = 4 /\ Len(enc.header) = 62

\* C27: encrypt called with an empty password, or with a chunk size over
\* 16 MiB (16,777,216), fails with FormatError before any work: the input file
\* is not opened, no key is derived, no temporary file is created and the
\* output path is as it was, whatever the other arguments and the file system.
RejectedArguments ==
  /\ enc.pc # "idle"
  /\ Len(enc.password) = 0 \/ enc.chunk_size_arg > 16777216

C27_ArgumentChecksFirst ==
  /\ RejectedArguments =>
       /\ enc.pc = "failed" /\ enc.err = "FormatError"
       /\ ~enc.input_opened /\ enc.kdf_calls = 0 /\ enc.key = NoKey
       /\ enc.tmp = NoKeyFile /\ \A t \in TmpPaths : ~fs[t].exists
       /\ fs[EncPath] = enc.before /\ enc.ops = << >>
  /\ (enc.pc # "idle" /\ ~RejectedArguments) => enc.input_opened

\* a chunk size over the limit, with a key file that could not have been read
C27_Witness ==
  /\ RejectedArguments /\ Len(enc.password) > 0
  /\ enc.key_file # NoKeyFile /\ HashKeyFile(fs, enc.key_file).err # NoErr
  /\ enc.before.exists

C27_WitnessEmptyPassword ==
  RejectedArguments /\ Len(enc.password) = 0 /\ enc.chunk_size_arg = 1

\* C28, as stated: only bit 0 of the flags byte of a V6/V7 header means
\* anything; the encryptor writes the reserved bits 1-7 as zero, and the
\* decryptor does not accept a header with a reserved bit set: such a header is
\* refused when it is parsed and no key is derived from it.
ReservedBits(flags) == flags \div 2

ReservedFlagsCrafted ==
  /\ tamper.kind = "flags" /\ ReservedBits(tamper.bit) # 0
  /\ dec.pc # "idle"

C28_Original ==
  /\ (HeaderWritten /\ WithKeyFile) => ReservedBits(enc.header[Len(enc.header)]) = 0
  /\ ReservedFlagsCrafted => ~HeaderAccepted /\ ~KdfInvoked

\* C29, as stated: a call replaces or removes an existing file at its output
\* path only when allow_overwrite is true; with allow_overwrite false, a file
\* that was at the output path still holds its content after the call,
\* whether the call succeeded or failed.
KeptOld(c, out) ==
  (c.pc \in { "done", "failed" } /\ ~c.allow_overwrite /\ c.before.exists) =>
    /\ fs[out] = c.before
    /\ c.ops = << >>

C29_Original == KeptOld(enc, EncPath) /\ KeptOld(dec, DecPath)

\* C30, as stated: two concurrent commands with allow_overwrite = false and
\* the same requested output path never rename onto the same final path;
\* once both are over, the output of each one that succeeded is at its path,
\* as it wrote it.
RaceOver == \A p \in Procs : race.proc[p].pc \in { "done", "failed" }

Succeeded(p) == race.proc[p].pc = "done"

C30_Original ==
  /\ \A p, q \in Procs :
       (p # q /\ Succeeded(p) /\ Succeeded(q)) => race.proc[p].path # race.proc[q].path
  /\ RaceOver =>
       \A p \in Procs : Succeeded(p) => race.dir[race.proc[p].path] = WrittenBy(p)

\* C31: decrypt reads the header and total_chunks frames and nothing after
\* them: with bytes appended after the last frame of a valid container the
\* decryption ends as it does without them, in success with the plaintext as
\* output, having read up to the end of the last frame and no further.
Appended == IF tamper.kind = "append" THEN tamper.at ELSE 0

C31_TrailingBytesIgnored ==
  /\ dec.pc # "idle" => dec.pc # "failed" /\ dec.err = NoErr
  /\ dec.pc \in { "parsed", "keyed", "done" } =>
       dec.pos <= Len(fs[EncPath].data) - Appended + 1
  /\ dec.pc = "done" =>
       /\ fs[DecPath] = File(fs[InPath].data)
       /\ dec.pos = Len(fs[EncPath].data) - Appended + 1
       /\ dec.chunk_index = enc.total_chunks

C31_Witness ==
  /\ dec.pc = "done" /\ tamper.kind = "append" /\ tamper.at > 4
  /\ Len(fs[InPath].data) > 0

C31_WitnessZeroFrame ==
  dec.pc = "done" /\ tamper.kind = "append" /\ tamper.at = 4 /\ tamper.bit = 0

\* C32: in the decryption of a V5/V7 container plaintext_written never
\* exceeds original_size.  A chunk that decompresses to more than
\* min(chunk_size, original_size - plaintext_written) bytes ends the call with
\* FormatError, nothing of it written; and the call succeeds only with
\* plaintext_written equal to original_size after the last chunk.
CompressedDecrypt ==
  tamper.kind = "crafted" /\ dec.pc \in { "keyed", "done", "failed" }
    /\ dec.hdr.has_compression /\ dec.kdf_calls = 1

\* the chunk the loop stopped at verified and was then refused
ChunkRefused ==
  dec.pc = "failed" /\ dec.tags_ok = dec.chunk_index + 1 /\ dec.aead_calls = dec.tags_ok

C32_OutputCap ==
  CompressedDecrypt =>
    /\ dec.plaintext_written <= dec.hdr.original_size
    /\ dec.plaintext_written = SumTo(tamper.lens, dec.chunk_index)
    /\ dec.pc = "keyed" => Len(fs[dec.tmp].data) = dec.plaintext_written
    /\ \A i \in 1..dec.chunk_index :
         tamper.lens[i] <= Min(dec.hdr.chunk_size,
                               dec.hdr.original_size - SumTo(tamper.lens, i - 1))
    /\ ChunkRefused =>
         /\ dec.err = "FormatError"
         /\ tamper.lens[dec.chunk_index + 1] >
              Min(dec.hdr.chunk_size, dec.hdr.original_size - dec.plaintext_written)
         /\ ~fs[DecPath].exists
    /\ dec.pc = "done" =>
         /\ dec.plaintext_written = dec.hdr.original_size
         /\ Len(fs[DecPath].data) = dec.hdr.original_size
    /\ (dec.pc = "failed" /\ dec.chunk_index = dec.hdr.total_chunks) =>
         /\ dec.err = "FormatError"
         /\ dec.plaintext_written < dec.hdr.original_size

\* a chunk within chunk_size but over what is left of original_size
C32_Witness ==
  /\ CompressedDecrypt /\ ChunkRefused /\ dec.chunk_index = 1
  /\ tamper.lens[2] <= dec.hdr.chunk_size
  /\ dec.hdr.compression.algorithm = COMPRESSION_ZSTD

C32_WitnessDone ==
  CompressedDecrypt /\ dec.pc = "done" /\ dec.hdr.original_size = 3 /\ dec.chunk_index = 2

C32_WitnessShort ==
  CompressedDecrypt /\ dec.pc = "failed" /\ dec.chunk_index = dec.hdr.total_chunks
    /\ dec.hdr.total_chunks = 2

\* C33: for every header the decryptor parses successfully, the header it
\* rebuilds and gives as AAD to each chunk's AEAD call is, byte for byte, the
\* header it read from the file; for a file as the encryptor wrote it, these
\* are the bytes the encryptor sealed every chunk over.
C33_RebuiltHeader ==
  HeaderAccepted =>
    /\ dec.aad = SubSeq(fs[EncPath].data, 1, dec.hdr.pos - 1)
    /\ tamper = NoTamper =>
         /\ dec.aad = enc.header
         /\ \A x \in sealed : x.aad = dec.aad

\* a header with reserved flag bits set, rebuilt with them and used as AAD
C33_Witness ==
  /\ HeaderAccepted /\ tamper.kind = "flags" /\ tamper.bit = 3
  /\ dec.aad[Len(dec.aad)] = 3 /\ dec.aead_calls = 1

C33_WitnessHonest ==
  HeaderAccepted /\ tamper = NoTamper /\ dec.pc = "done" /\ Len(dec.aad) = 73

\* C34: a header whose version byte is not 4, 5, 6 or 7, whose chunk_size is
\* 0 or over 16 MiB (16,777,216), or whose total_chunks is over 10,000,000 is
\* refused with FormatError before a key is derived and before any temporary
\* or output file exists.  The values at the limits are let through.
HeaderOutOfRange ==
  \/ tamper.kind = "version" /\ tamper.bit \notin 4..7
  \/ tamper.kind = "chunk_size" /\ (tamper.bit = 0 \/ tamper.bit > 16777216)
  \/ tamper.kind = "total_chunks" /\ tamper.bit > 10000000

C34_WitnessVersion ==
  tamper.kind = "version" /\ tamper.bit = 8 /\ dec.pc = "failed" /\ Len(dec.password) > 0

C34_WitnessTotalChunks ==
  tamper.kind = "total_chunks" /\ tamper.bit = 10000001 /\ dec.pc = "failed"
    /\ Len(dec.password) > 0

C34_WitnessAtLimit ==
  tamper.kind = "chunk_size" /\ tamper.bit = 16777216 /\ HeaderAccepted /\ KdfInvoked

\* C35: a V5/V7 header in which original_size is more than total_chunks times
\* chunk_size is refused with FormatError before any key is derived; and in
\* every V5/V7 header the encryptor writes, original_size is at most
\* total_chunks times chunk_size.  The fields are read off the header bytes:
\* chunk_size at offset 50, total_chunks at 54, original_size at 64.
HeaderField(header, at) == LEU32(Slice(header, at + 1, 4))

SizeInconsistent(header) ==
  HeaderField(header, 64) > HeaderField(header, 54) * HeaderField(header, 50)

\* a V5/V7 container with its three size fields as written, or one overwritten
SizeFieldsCrafted ==
  /\ enc.pc = "done" /\ WithCompression
  /\ tamper.kind \in { "none", "original_size", "chunk_size", "total_chunks" }

C35_OriginalSizeBound ==
  /\ (HeaderWritten /\ WithCompression) =>
       /\ ~SizeInconsistent(enc.header)
       /\ HeaderField(enc.header, 64) = enc.file_size
  /\ (SizeFieldsCrafted /\ dec.pc # "idle" /\ SizeInconsistent(fs[EncPath].data)) =>
       /\ dec.pc = "failed" /\ dec.err = "FormatError"
       /\ ~HeaderAccepted /\ ~KdfInvoked /\ dec.aead_calls = 0
  /\ (SizeFieldsCrafted /\ HeaderAccepted) => ~SizeInconsistent(fs[EncPath].data)

\* original_size is as written, chunk_size lowered to 1: two chunks of one byte
\* cannot hold three bytes
C35_Witness ==
  /\ SizeFieldsCrafted /\ tamper.kind = "chunk_size" /\ tamper.bit = 1
  /\ enc.file_size = 3 /\ enc.total_chunks = 2
  /\ dec.pc = "failed" /\ Len(dec.password) > 0

C35_WitnessOriginalSize ==
  /\ SizeFieldsCrafted /\ tamper.kind = "original_size" /\ dec.pc = "failed"
  /\ SizeInconsistent(fs[EncPath].data) /\ Len(dec.password) > 0

C35_WitnessEqual ==
  /\ SizeFieldsCrafted /\ HeaderAccepted /\ enc.file_size > 0
  /\ HeaderField(fs[EncPath].data, 64)
       = HeaderField(fs[EncPath].data, 54) * HeaderField(fs[EncPath].data, 50)

\* C36: a frame whose 4-byte length is more than max_ciphertext_len, that is
\* chunk_size + 16 without compression and compress_bound(chunk_size) + 16
\* with ZSTD, is refused with FormatError before its body is read or given to
\* the cipher; and no frame the encryptor writes is longer than that bound.
FrameBound(chunk_size, algorithm) ==
  IF algorithm = 1 THEN compress_bound(chunk_size) + 16 ELSE chunk_size + 16

\* the chunk loop stopped at a frame whose length prefix could be read
StoppedAtFrame ==
  /\ dec.pc = "failed" /\ dec.kdf_calls = 1
  /\ dec.chunk_index < dec.hdr.total_chunks
  /\ Len(fs[EncPath].data) >= dec.pos + 3

FrameLength == LEU32(Slice(fs[EncPath].data, dec.pos, 4))

DecFrameBound ==
  FrameBound(dec.hdr.chunk_size,
             IF dec.hdr.has_compression THEN dec.hdr.compression.algorithm ELSE 0)

C36_FrameLengthBound ==
  /\ StoppedAtFrame =>
       /\ FrameLength > DecFrameBound =>
            /\ dec.err = "FormatError"
            /\ dec.aead_calls = dec.chunk_index /\ dec.tags_ok = dec.chunk_index
       /\ FrameLength <= DecFrameBound => dec.err \in { "Io", "InvalidPassword" }
  /\ (enc.pc = "done" /\ tamper = NoTamper) =>
       LET frames == FramesOf(fs[EncPath].data, Len(enc.header) + 1, enc.total_chunks) IN
       \A i \in DOMAIN frames :
         Len(frames[i]) - 4 <= FrameBound(enc.chunk_size, enc.compression.algorithm)

\* the length of the second frame raised over the bound by one flipped bit
C36_Witness ==
  /\ StoppedAtFrame /\ FrameLength > DecFrameBound /\ dec.chunk_index = 1
  /\ tamper.kind = "flip" /\ dec.hdr.has_compression

C36_WitnessWithin ==
  /\ StoppedAtFrame /\ FrameLength <= DecFrameBound /\ FrameLength > 17
  /\ tamper.kind = "flip" /\ tamper.at = dec.pos /\ dec.err = "InvalidPassword"

\* ---- extraction targets
\* the entry's target, joined to the output directory and normalised, does
\* not have the output directory as a prefix
Escapes(entry) ==
  compute_safe_output_path(entry.path, OutputDir).err = "PathTraversal"

EscapingAt == { i \in DOMAIN arch.entries : Escapes(arch.entries[i]) }

\* a path below the output directory with no "." or ".." left in it
UnderOutputDir(path) ==
  /\ starts_with(path.dir, OutputDir)
  /\ \A k \in DOMAIN path.dir : path.dir[k] \notin { ParentDir, "." }

\* C37: every path extraction writes to or returns, collision-renamed paths
\* included, lies under the output directory once "." and ".." are
\* resolved; an entry whose normalised target leaves the output directory is
\* never passed over and never written: the extraction stops at it with
\* PathTraversal.
C37_UnderOutputDir ==
  /\ \A f \in Written : UnderOutputDir(f.path)
  /\ \A i \in DOMAIN arch.extracted : UnderOutputDir(arch.extracted[i])
  /\ \A k \in EscapingAt :
       /\ arch.pc = "validate" => arch.index <= k
       /\ arch.pc \notin { "extract", "done" }
       /\ (arch.pc = "failed" /\ arch.index = k) => arch.err = "PathTraversal"
       /\ NothingWritten

\* an extraction that wrote into a subdirectory and to a collision-renamed
\* path
C37_Witness ==
  /\ arch.pc = "done" /\ ~arch.allow_overwrite
  /\ \E i \in DOMAIN arch.extracted :
       arch.extracted[i].dir = OutputDir \o << "d" >>
  /\ \E i \in DOMAIN arch.extracted :
       \A k \in DOMAIN arch.entries :
         arch.extracted[i] # compute_safe_output_path(arch.entries[k].path, OutputDir).path

\* a regular entry, then one that leaves the output directory: PathTraversal
\* at the second entry, the old file untouched
C37_WitnessRefused ==
  /\ arch.pc = "failed" /\ arch.err = "PathTraversal" /\ arch.index = 2
  /\ EscapingAt = { 2 } /\ arch.entries[1].type = "Regular"
  /\ arch.before # { } /\ arch.out = arch.before

\* ---- extraction without overwrite
\* the entry behind the i-th materialised path
ExtractedEntry(i) ==
  arch.entries[CHOOSE k \in MaterialisedAt :
                 Cardinality({ j \in MaterialisedAt : j <= k }) = i]

\* the path the i-th materialised entry asks for
SafePath(i) == compute_safe_output_path(ExtractedEntry(i).path, OutputDir).path

\* that path was taken when the entry was written
Taken(i) ==
  \/ Exists(arch.before, SafePath(i))
  \/ \E j \in 1..(i - 1) : arch.extracted[j] = SafePath(i)

CollisionPath(path, n) == ArchPath(path.dir, build_collision_path(path.name, n))

\* C38: with allow_overwrite = false, a file that was in the output
\* directory before the extraction, or that an earlier entry of the same
\* extraction materialised, keeps its bytes; an entry whose path is taken is
\* written to the first free collision-suffixed path, and the returned paths
\* are pairwise distinct.
C38_NoOverwrite ==
  ~arch.allow_overwrite =>
    /\ arch.before \subseteq arch.out
    /\ \A i, j \in DOMAIN arch.extracted :
         i # j => arch.extracted[i] # arch.extracted[j]
    /\ \A i \in DOMAIN arch.extracted :
         /\ [path |-> arch.extracted[i], data |-> ExtractedEntry(i).data] \in arch.out
         /\ IF ~Taken(i) THEN arch.extracted[i] = SafePath(i)
            ELSE \E n \in 1..(Len(arch.entries) + 1) :
                   /\ arch.extracted[i] = CollisionPath(SafePath(i), n)
                   /\ \A m \in 1..(n - 1) :
                        Exists(arch.out, CollisionPath(SafePath(i), m))
                   /\ ~Exists(arch.before, CollisionPath(SafePath(i), n))
                   /\ \A j \in 1..(i - 1) :
                        arch.extracted[j] # CollisionPath(SafePath(i), n)

\* two entries of the name of a file that is already there: the old file
\* kept, the entries at the first and the second candidate
C38_Witness ==
  /\ arch.pc = "done" /\ ~arch.allow_overwrite /\ arch.before # { }
  /\ Len(arch.extracted) = 2
  /\ arch.extracted[1] = CollisionPath(ArchPath(OutputDir, NameF), 1)
  /\ arch.extracted[2] = CollisionPath(ArchPath(OutputDir, NameF), 2)
  /\ arch.before \subseteq arch.out /\ Cardinality(arch.out) = 3

\* two entries of one name into an empty directory: the second renamed, the
\* first intact
C38_WitnessSameExtraction ==
  /\ arch.pc = "done" /\ ~arch.allow_overwrite /\ arch.before = { }
  /\ Len(arch.extracted) = 2
  /\ arch.extracted[1] = SafePath(1) /\ SafePath(2) = SafePath(1)
  /\ arch.extracted[2] = CollisionPath(SafePath(1), 1)
  /\ ExtractedEntry(1).data # ExtractedEntry(2).data
  /\ [path |-> SafePath(1), data |-> ExtractedEntry(1).data] \in arch.out

\* ---- temp files
\* the operation is between its first step and its return
EncRunning == enc.pc \notin { "idle", "done", "failed" }
DecRunning == dec.pc \notin { "idle", "done", "failed" }

\* C39: a temp file exists only while the operation that created it is
\* still running: once encrypt or decrypt has returned, with success or with
\* any error raised after the temp file was created, none of its temp files
\* remains.
C39_NoTempLeft ==
  \A t \in TmpPaths :
    fs[t].exists => \/ EncRunning /\ enc.tmp = t
                    \/ DecRunning /\ dec.tmp = t

\* an encryption that wrote a chunk to its temp file and then failed on a
\* file operation: no temp file
C39_Witness ==
  /\ enc.pc = "failed" /\ enc.err = "Io" /\ enc.fault /\ enc.chunk_index >= 1
  /\ \A t \in TmpPaths : ~fs[t].exists

\* a decryption that created its temp file and then met a tag failure
C39_WitnessTag ==
  /\ dec.pc = "failed" /\ dec.err = "InvalidPassword" /\ dec.aead_calls >= 1
  /\ \A t \in TmpPaths : ~fs[t].exists

\* both operations returned with success: the temp files were renamed away
C39_WitnessDone ==
  /\ enc.pc = "done" /\ dec.pc = "done"
  /\ fs[EncPath].exists /\ fs[DecPath].exists
  /\ \A t \in TmpPaths : ~fs[t].exists

\* ---- a key file the container does not ask for
\* V4/V5, or V6/V7 with bit 0 of the flags clear
NoKeyFileAsked ==
  /\ tamper.kind = "crafted"
  /\ ~(tamper.header.has_flags /\ KeyFileFlagSet(tamper.header.flags))

\* C40: when the container does not require a key file, a decryption that
\* is given one derives its key from the password alone and never fails on
\* the key file (an empty one, which cannot be hashed, included), and it ends
\* exactly as the decryption of the same container without a key file: the
\* same result, the same error, the same output.
C40_KeyFileIgnored ==
  /\ (NoKeyFileAsked /\ dec.key_file # NoKeyFile) =>
       /\ dec.err \notin { "KeyFileError", "KeyFileRequired" }
       /\ dec.key # NoKey =>
            dec.key = DeriveKey(PasswordMaterial(dec.password), dec.hdr.salt,
                                dec.hdr.kdf_params).key
  /\ (NoKeyFileAsked /\ prior # NotRunning /\ DecOver) =>
       /\ dec.pc = prior.pc /\ dec.err = prior.err /\ dec.key = prior.key
       /\ fs[DecPath] = prior.output
       /\ dec.plaintext_written = prior.plaintext_written

\* a V7 container with the key-file bit clear, decrypted with an empty key
\* file and then without one: the same plaintext both times
C40_Witness ==
  /\ NoKeyFileAsked /\ tamper.header.version = STREAMING_VERSION_V7
  /\ prior # NotRunning /\ prior.key_file = "k0" /\ prior.pc = "done"
  /\ dec.pc = "done" /\ dec.key_file = NoKeyFile
  /\ fs[DecPath].exists /\ Len(fs[DecPath].data) >= 2
  /\ fs[DecPath] = prior.output

\* a V4 container decrypted with a key file and then without one: the same
\* failure both times, after the key was derived
C40_WitnessFailure ==
  /\ NoKeyFileAsked /\ tamper.header.version = STREAMING_VERSION_V4
  /\ prior # NotRunning /\ prior.key_file = "k1" /\ prior.pc = "failed"
  /\ prior.key # NoKey
  /\ dec.pc = "failed" /\ dec.err = prior.err /\ dec.key_file = NoKeyFile

\* a container that requires its key file: the two decryptions differ
C40_WitnessRequired ==
  /\ tamper.kind = "crafted" /\ ~NoKeyFileAsked
  /\ prior # NotRunning /\ prior.key_file = "k1" /\ prior.pc = "done"
  /\ dec.pc = "failed" /\ dec.err = "KeyFileRequired"

====
